---------------------------- MODULE Spec2Model ----------------------------
(***************************************************************************)
(* The query execution engine of vibase (packages/core): buildSafeQuery,   *)
(* the beforeQuery hook pipeline and executeQuery with its per-connection  *)
(* queue, as a state machine of concurrent invocations.                    *)
(*                                                                         *)
(* A string is a sequence of one-character strings.  One action is one     *)
(* synchronous run of JavaScript between two suspension points (await).    *)
(***************************************************************************)
EXTENDS Integers, Sequences, FiniteSets, TLC

(***************************************************************************)
(* Bounds of the model.                                                    *)
(***************************************************************************)
NInv == 2
NClients == 2
MaxCallbacks == 2
MaxTokens == 3
MaxArgs == 2
NExec == 1
MaxRegistrations == 2
MaxGetPool == 3
MaxCloseAll == 2
MaxParams == 1
MaxTools == 1

Invocations == 1..NInv
Clients == 1..NClients
Executions == 1..NExec

(***************************************************************************)
(* Strings.                                                                *)
(***************************************************************************)
DigitChars == <<"0", "1", "2", "3", "4", "5", "6", "7", "8", "9">>

\* \w of the regular expressions: [A-Za-z0-9_]
WordChars ==
  {"a", "b", "c", "d", "e", "f", "g", "h", "i", "j", "k", "l", "m", "n", "o",
   "p", "q", "r", "s", "t", "u", "v", "w", "x", "y", "z",
   "A", "B", "C", "D", "E", "F", "G", "H", "I", "J", "K", "L", "M", "N", "O",
   "P", "Q", "R", "S", "T", "U", "V", "W", "X", "Y", "Z", "_"}
    \cup {DigitChars[d] : d \in 1..10}

RECURSIVE Digits(_)
\* String(n) for a positive integer, as the template literal `$${position}` renders it
Digits(n) ==
  IF n < 10 THEN <<DigitChars[n + 1]>>
  ELSE Digits(n \div 10) \o <<DigitChars[(n % 10) + 1]>>

\* statement.includes(ch)
Includes(s, ch) == \E i \in 1..Len(s) : s[i] = ch

RECURSIVE WordEnd(_, _)
\* the index after the longest run of \w characters that starts at i (greedy \w+)
WordEnd(s, i) ==
  IF i > Len(s) \/ s[i] \notin WordChars THEN i ELSE WordEnd(s, i + 1)

RECURSIVE MatchAllFrom(_, _)
\* statement.matchAll(/:(\w+)/g) from index i: the captured names, left to right
MatchAllFrom(s, i) ==
  IF i > Len(s) THEN <<>>
  ELSE IF s[i] = ":" /\ i < Len(s) /\ s[i + 1] \in WordChars
       THEN LET e == WordEnd(s, i + 1)
            IN  <<SubSeq(s, i + 1, e - 1)>> \o MatchAllFrom(s, e)
       ELSE MatchAllFrom(s, i + 1)

MatchAll(s) == MatchAllFrom(s, 1)

\* whether /:name/, without the word boundary, matches at index i of s
MatchesAtPrefix(s, i, name) ==
  LET e == i + Len(name)
  IN  /\ s[i] = ":"
      /\ e <= Len(s)
      /\ SubSeq(s, i + 1, e) = name

\* whether /:name\b/ matches at index i of s
MatchesAt(s, i, name) ==
  LET e == i + Len(name)
  IN  /\ s[i] = ":"
      /\ e <= Len(s)
      /\ SubSeq(s, i + 1, e) = name
      /\ (e = Len(s) \/ s[e + 1] \notin WordChars)

RECURSIVE ReplaceFrom(_, _, _, _)
\* s.replace(new RegExp(`:${name}\\b`, 'g'), rep) from index i
ReplaceFrom(s, i, name, rep) ==
  IF i > Len(s) THEN <<>>
  ELSE IF MatchesAt(s, i, name)
       THEN rep \o ReplaceFrom(s, i + Len(name) + 1, name, rep)
       ELSE <<s[i]>> \o ReplaceFrom(s, i + 1, name, rep)

ReplaceAll(s, name, rep) == ReplaceFrom(s, 1, name, rep)

(***************************************************************************)
(* Argument objects: a sequence of [name, value] with distinct names, in   *)
(* insertion order.                                                        *)
(***************************************************************************)
\* an own property of the object
HasOwn(parameters, name) ==
  \E k \in 1..Len(parameters) : parameters[k].name = name

\* the properties a plain object inherits from Object.prototype
ObjectPrototype ==
  { <<"c", "o", "n", "s", "t", "r", "u", "c", "t", "o", "r">>,
    <<"t", "o", "S", "t", "r", "i", "n", "g">>,
    <<"t", "o", "L", "o", "c", "a", "l", "e", "S", "t", "r", "i", "n", "g">>,
    <<"v", "a", "l", "u", "e", "O", "f">>,
    <<"h", "a", "s", "O", "w", "n", "P", "r", "o", "p", "e", "r", "t", "y">>,
    <<"i", "s", "P", "r", "o", "t", "o", "t", "y", "p", "e", "O", "f">>,
    <<"p", "r", "o", "p", "e", "r", "t", "y", "I", "s", "E", "n", "u", "m", "e",
      "r", "a", "b", "l", "e">>,
    <<"_", "_", "p", "r", "o", "t", "o", "_", "_">> }

\* the value of an inherited property: a function or the prototype object
Inherited(name) == <<"[inherited ", name, "]">>

\* paramName in parameters: own and inherited properties
HasParam(parameters, name) ==
  HasOwn(parameters, name) \/ name \in ObjectPrototype

\* parameters[paramName]
ParamValue(parameters, name) ==
  IF HasOwn(parameters, name)
  THEN LET k == CHOOSE k \in 1..Len(parameters) : parameters[k].name = name
       IN  parameters[k].value
  ELSE Inherited(name)

\* Object.keys(parameters) as a set
ParamNames(parameters) == {parameters[k].name : k \in 1..Len(parameters)}

\* a canonical array index: decimal digits with no leading zero
IsArrayIndex(name) ==
  /\ name # <<>>
  /\ \A k \in 1..Len(name) : \E d \in 1..10 : name[k] = DigitChars[d]
  /\ Len(name) = 1 \/ name[1] # "0"

RECURSIVE NumberOf(_)
\* the number an array index denotes
NumberOf(name) ==
  IF name = <<>> THEN 0
  ELSE 10 * NumberOf(SubSeq(name, 1, Len(name) - 1))
         + (CHOOSE d \in 0..9 : DigitChars[d + 1] = name[Len(name)])

RECURSIVE Ascending(_, _)
\* the positions picked of parameters, by ascending array index
Ascending(parameters, picked) ==
  IF picked = {} THEN <<>>
  ELSE LET k == CHOOSE k \in picked : \A j \in picked :
                  NumberOf(parameters[k].name) <= NumberOf(parameters[j].name)
       IN  <<k>> \o Ascending(parameters, picked \ {k})

\* the own keys in property order: array indices ascending, then the other
\* keys in insertion order
OwnKeyOrder(parameters) ==
  LET idx == {k \in 1..Len(parameters) : IsArrayIndex(parameters[k].name)}
  IN  Ascending(parameters, idx) \o
        SelectSeq([k \in 1..Len(parameters) |-> k], LAMBDA k : k \notin idx)

\* Object.values(parameters)
ObjectValues(parameters) ==
  LET order == OwnKeyOrder(parameters)
  IN  [k \in 1..Len(order) |-> parameters[order[k]].value]

Range(f) == {f[k] : k \in DOMAIN f}

RECURSIVE CollectParamsNoDedup(_, _, _)
\* a loop that takes a position for every occurrence of a name
CollectParamsNoDedup(matches, parameters, seen) ==
  IF matches = <<>> THEN [ok |-> TRUE, names |-> seen, missing |-> <<>>]
  ELSE LET paramName == Head(matches)
       IN  IF ~HasParam(parameters, paramName)
           THEN [ok |-> FALSE, names |-> seen, missing |-> paramName]
           ELSE CollectParamsNoDedup(Tail(matches), parameters,
                                     Append(seen, paramName))

RECURSIVE CollectParams(_, _, _)
\* the loop over paramMatches: the distinct names in first-occurrence order
\* (paramMap's insertion order), or the first name that is not an argument
CollectParams(matches, parameters, seen) ==
  IF matches = <<>> THEN [ok |-> TRUE, names |-> seen, missing |-> <<>>]
  ELSE LET paramName == Head(matches)
       IN  IF ~HasParam(parameters, paramName)
           THEN [ok |-> FALSE, names |-> seen, missing |-> paramName]
           ELSE CollectParams(Tail(matches), parameters,
                  IF paramName \in Range(seen) THEN seen
                  ELSE Append(seen, paramName))

RECURSIVE SubstituteNames(_, _, _)
\* the loop over paramMap.entries(): names[k] has position k
SubstituteNames(sqlStatement, names, k) ==
  IF k > Len(names) THEN sqlStatement
  ELSE SubstituteNames(
         ReplaceAll(sqlStatement, names[k], <<"$">> \o Digits(k)), names, k + 1)

RECURSIVE InlineValues(_, _, _, _)
\* a binder that writes the argument values into the text
InlineValues(sqlStatement, names, parameters, k) ==
  IF k > Len(names) THEN sqlStatement
  ELSE InlineValues(
         ReplaceAll(sqlStatement, names[k], ParamValue(parameters, names[k])),
         names, parameters, k + 1)

BuildSafeQueryInline(statement, parameters) ==
  IF Includes(statement, ":")
  THEN LET c == CollectParams(MatchAll(statement), parameters, <<>>)
       IN  IF ~c.ok
           THEN [ok |-> FALSE, text |-> <<>>, values |-> <<>>,
                 error |-> <<"Parameter :">> \o c.missing \o <<" not provided">>]
           ELSE [ok |-> TRUE,
                 text |-> InlineValues(statement, c.names, parameters, 1),
                 values |-> <<>>, error |-> <<>>]
  ELSE [ok |-> TRUE, text |-> statement, values |-> <<>>, error |-> <<>>]

\* buildSafeQuery: ok = FALSE is the thrown Error, error its message
BuildSafeQuery(statement, parameters) ==
  IF Includes(statement, ":")
  THEN LET c == CollectParams(MatchAll(statement), parameters, <<>>)
       IN  IF ~c.ok
           THEN [ok |-> FALSE, text |-> <<>>, values |-> <<>>,
                 error |-> <<"Parameter :">> \o c.missing \o <<" not provided">>]
           ELSE [ok |-> TRUE,
                 text |-> SubstituteNames(statement, c.names, 1),
                 values |-> [k \in 1..Len(c.names) |->
                               ParamValue(parameters, c.names[k])],
                 error |-> <<>>]
  ELSE IF Includes(statement, "$")
  THEN [ok |-> TRUE, text |-> statement, values |-> ObjectValues(parameters),
        error |-> <<>>]
  ELSE [ok |-> TRUE, text |-> statement, values |-> <<>>, error |-> <<>>]

(***************************************************************************)
(* Session settings: a JavaScript Map<string, string>, as the sequence of  *)
(* its [key, value] entries in insertion order.                            *)
(***************************************************************************)
MapHas(m, key) == \E k \in 1..Len(m) : m[k][1] = key

MapGet(m, key) == LET k == CHOOSE k \in 1..Len(m) : m[k][1] = key IN m[k][2]

\* Map.prototype.set: an existing key keeps its place
MapSet(m, key, value) ==
  IF MapHas(m, key)
  THEN [k \in 1..Len(m) |-> IF m[k][1] = key THEN <<key, value>> ELSE m[k]]
  ELSE Append(m, <<key, value>>)

RECURSIVE MergeSettingsFirstWins(_, _)
\* a merge that keeps the value a key already has
MergeSettingsFirstWins(merged, entries) ==
  IF entries = <<>> THEN merged
  ELSE MergeSettingsFirstWins(
         IF MapHas(merged, Head(entries)[1]) THEN merged
         ELSE MapSet(merged, Head(entries)[1], Head(entries)[2]),
         Tail(entries))

RECURSIVE MergeSettings(_, _)
\* for (const [key, value] of result.pgSettings.entries()) merged.set(key, value)
MergeSettings(merged, entries) ==
  IF entries = <<>> THEN merged
  ELSE MergeSettings(MapSet(merged, Head(entries)[1], Head(entries)[2]),
                     Tail(entries))

\* a BeforeQueryResult: pgSettings is optional
NoSettings == [defined |-> FALSE, entries |-> <<>>]
Settings(m) == [defined |-> TRUE, entries |-> m]

\* a mapping of jwt.claims.role to role that overrides an explicit role
EnhancedSettingsOverride(m) ==
  IF MapHas(m, "jwt.claims.role")
  THEN MapSet(m, "role", MapGet(m, "jwt.claims.role"))
  ELSE m

\* enhancedSettings: role is taken from jwt.claims.role unless role is set
EnhancedSettings(m) ==
  IF ~MapHas(m, "role") /\ MapHas(m, "jwt.claims.role")
  THEN MapSet(m, "role", MapGet(m, "jwt.claims.role"))
  ELSE m

\* a test of pgSettings that leaves out its size
NeedsTransactionDefined(settings) == settings.defined

\* pgSettings && pgSettings.size > 0
NeedsTransaction(settings) == settings.defined /\ Len(settings.entries) > 0

(***************************************************************************)
(* The inputs of an invocation.                                            *)
(***************************************************************************)
Hostile == <<"'", ";", "-", "-">>

\* tool statements: named (one name twice), positional, plain, and a named
\* one whose placeholder :b is not among the arguments
Statements == <<
  <<"a", "=", ":", "a", " ", "b", "=", ":", "b", " ", "a", "=", ":", "a">>,
  <<"a", "=", "$", "1">>,
  <<"a", "=", "b">>,
  <<"a", "=", ":", "a", " ", ":", "b">> >>

Values == {Hostile, <<"7">>}

\* parsedArgs of the calls
ArgObjects == <<
  << [name |-> <<"a">>, value |-> Hostile], [name |-> <<"b">>, value |-> <<"7">>] >>,
  << [name |-> <<"a">>, value |-> Hostile] >> >>

\* (statement, parsedArgs) of a call
Calls == { <<1, 1>>, <<2, 2>>, <<3, 2>>, <<4, 2>> }

\* every argument object with the names of args, in the same order
SameNames(args) ==
  { [k \in 1..Len(args) |-> [name |-> args[k].name, value |-> v[k]]] :
      v \in [1..Len(args) -> Values] }

\* what a beforeQuery callback can resolve to
CallbackResults == {
  NoSettings,
  Settings(<<>>),
  Settings(<< <<"role", "authenticated">> >>),
  Settings(<< <<"jwt.claims.role", "admin">>, <<"user.id", "u1">> >>) }

\* the plugins argument: undefined, a PluginRegistry, or another
\* implementation of the Plugins interface
PluginKinds == {"none", "registry", "other"}

ToolName(i) == <<"tool", Digits(i)>>

(***************************************************************************)
(* Errors are identified by their message.                                 *)
(***************************************************************************)
ErrConnStr == <<"connection string failed">>
ErrGetPool == <<"getPool failed">>
ErrHook == <<"hook failed">>
ErrConnect == <<"connect failed">>
ErrRelease == <<"release failed">>
StmtErr(kind) == <<kind, " failed">>

\* the CallToolResult of the success return
SuccessResult(rows) ==
  [state |-> "resolved", isError |-> FALSE, text |-> <<"JSON", rows>>]

\* the CallToolResult of the catch block
ErrorResult(toolName, message) ==
  [state |-> "resolved", isError |-> TRUE,
   text |-> <<"Error executing tool '", toolName, "': ", message>>]

\* the promise of executeQuery rejects
Rejection(message) ==
  [state |-> "rejected", isError |-> TRUE, text |-> <<message>>]

Pending == [state |-> "pending", isError |-> FALSE, text |-> <<>>]

Rows == <<"rows">>

(***************************************************************************)
(* The values of arguments and parameter defaults: strings (sequences of   *)
(* characters), integers, booleans, null and undefined.  NaN is what       *)
(* Number() gives for a string that is not a numeric literal.              *)
(***************************************************************************)
JsValue(type, str, num, bool) ==
  [type |-> type, str |-> str, num |-> num, bool |-> bool]

Str(s) == JsValue("string", s, 0, FALSE)
Num(n) == JsValue("number", <<>>, n, FALSE)
Bool(b) == JsValue("boolean", <<>>, 0, b)
Null == JsValue("null", <<>>, 0, FALSE)
NaN == JsValue("nan", <<>>, 0, FALSE)
JsUndefined == JsValue("undefined", <<>>, 0, FALSE)

\* typeof value
TypeOf(v) ==
  CASE v.type = "nan" -> "number"
    [] v.type = "null" -> "object"
    [] OTHER -> v.type

UpperChars ==
  <<"A", "B", "C", "D", "E", "F", "G", "H", "I", "J", "K", "L", "M", "N", "O",
    "P", "Q", "R", "S", "T", "U", "V", "W", "X", "Y", "Z">>

LowerChars ==
  <<"a", "b", "c", "d", "e", "f", "g", "h", "i", "j", "k", "l", "m", "n", "o",
    "p", "q", "r", "s", "t", "u", "v", "w", "x", "y", "z">>

\* val.toLowerCase()
ToLowerCase(s) ==
  [k \in 1..Len(s) |->
     IF \E u \in 1..26 : UpperChars[u] = s[k]
     THEN LowerChars[CHOOSE u \in 1..26 : UpperChars[u] = s[k]]
     ELSE s[k]]

\* the white space trim() and Number() strip
WhiteSpace == {" ", "\t", "\n"}

RECURSIVE TrimStart(_)
TrimStart(s) ==
  IF s # <<>> /\ s[1] \in WhiteSpace THEN TrimStart(Tail(s)) ELSE s

RECURSIVE TrimEnd(_)
TrimEnd(s) ==
  IF s # <<>> /\ s[Len(s)] \in WhiteSpace
  THEN TrimEnd(SubSeq(s, 1, Len(s) - 1))
  ELSE s

\* val.trim()
Trim(s) == TrimEnd(TrimStart(s))

\* the string is a run of decimal digits
IsDigits(s) ==
  s # <<>> /\ \A k \in 1..Len(s) : \E d \in 1..10 : s[k] = DigitChars[d]

\* Number(value) for a string of white space, signs, digits and letters other
\* than an exponent, a radix prefix or Infinity: the empty or blank string is
\* 0, a signed run of digits is its value, anything else is NaN
StringToNumber(s) ==
  LET t == Trim(s)
  IN  CASE t = <<>> -> Num(0)
        [] IsDigits(t) -> Num(NumberOf(t))
        [] t # <<>> /\ t[1] = "-" /\ IsDigits(Tail(t)) -> Num(0 - NumberOf(Tail(t)))
        [] t # <<>> /\ t[1] = "+" /\ IsDigits(Tail(t)) -> Num(NumberOf(Tail(t)))
        [] OTHER -> NaN

\* Number(value)
ToNumber(v) ==
  CASE v.type = "string" -> StringToNumber(v.str)
    [] v.type = "number" -> v
    [] v.type = "boolean" -> Num(IF v.bool THEN 1 ELSE 0)
    [] v.type = "null" -> Num(0)
    [] OTHER -> NaN

\* String(value)
StringOf(v) ==
  CASE v.type = "string" -> v.str
    [] v.type = "number" ->
         IF v.num < 0 THEN <<"-">> \o Digits(0 - v.num) ELSE Digits(v.num)
    [] v.type = "boolean" -> IF v.bool THEN <<"t", "r", "u", "e">> ELSE <<"f", "a", "l", "s", "e">>
    [] v.type = "null" -> <<"n", "u", "l", "l">>
    [] v.type = "nan" -> <<"N", "a", "N">>
    [] OTHER -> <<"u", "n", "d", "e", "f", "i", "n", "e", "d">>

\* what a Zod schema's parse gives: the parsed value or an issue
Parsed(v) == [ok |-> TRUE, value |-> v]
Issue == [ok |-> FALSE, value |-> JsUndefined]

\* the transform of the boolean schema with an input that does not go through
\* a lower-cased, trimmed string
BooleanTransformExact(val) ==
  CASE val.type = "boolean" -> val
    [] val.type = "number" -> Bool(val.num # 0)
    [] val.type = "string" ->
         IF val.str \in {<<"f", "a", "l", "s", "e">>, <<"0">>, <<>>, <<"n", "o">>, <<"o", "f", "f">>} THEN Bool(FALSE)
         ELSE IF val.str \in {<<"t", "r", "u", "e">>, <<"1">>, <<"y", "e", "s">>, <<"o", "n">>} THEN Bool(TRUE)
         ELSE Bool(val.str # <<>> /\ val.str # <<"0">>)
    [] OTHER -> Bool(FALSE)

\* the transform of the boolean schema
BooleanTransform(val) ==
  CASE val.type = "boolean" -> val
    [] val.type = "number" -> Bool(val.num # 0)
    [] val.type = "string" ->
         LET lower == Trim(ToLowerCase(val.str))
         IN  IF lower \in {<<"f", "a", "l", "s", "e">>, <<"0">>, <<>>, <<"n", "o">>, <<"o", "f", "f">>} THEN Bool(FALSE)
             ELSE IF lower \in {<<"t", "r", "u", "e">>, <<"1">>, <<"y", "e", "s">>, <<"o", "n">>} THEN Bool(TRUE)
             ELSE Bool(val.str # <<>> /\ val.str # <<"0">>)
    [] OTHER -> Bool(FALSE)

\* createZodSchema(paramType, true).parse(val): z.string(), z.coerce.number()
\* and the union of boolean, string and number with its transform
ZodParse(paramType, val) ==
  CASE paramType = "number" ->
         IF ToNumber(val).type = "number" THEN Parsed(ToNumber(val)) ELSE Issue
    [] paramType = "boolean" ->
         IF val.type \in {"boolean", "string", "number"}
         THEN Parsed(BooleanTransform(val))
         ELSE Issue
    [] OTHER ->
         IF val.type = "string" THEN Parsed(val) ELSE Issue

\* a declared parameter of a tool
Parameter(name, type, required, default) ==
  [name |-> name, type |-> type, required |-> required, default |-> default]

\* the schema getZodShape builds for a parameter: the coerced schema with
\* .default(coercedDefault), with .optional(), or as it is; parsing the default
\* can throw
ZodType(param) ==
  IF param.default # JsUndefined
  THEN [threw |-> ~ZodParse(param.type, param.default).ok,
        type |-> param.type, wrap |-> "default",
        default |-> ZodParse(param.type, param.default).value]
  ELSE [threw |-> FALSE, type |-> param.type,
        wrap |-> IF param.required = Bool(FALSE) THEN "optional" ELSE "none",
        default |-> JsUndefined]

\* getZodShape(): the schema of every parameter, by name
GetZodShape(parameters) ==
  [threw |-> \E k \in 1..Len(parameters) : ZodType(parameters[k]).threw,
   shape |-> [k \in 1..Len(parameters) |->
                [name |-> parameters[k].name, zodType |-> ZodType(parameters[k])]]]

\* a schema whose default is not substituted
ZodTypeParseNoDefault(zodType, val) ==
  IF val = JsUndefined /\ zodType.wrap \in {"default", "optional"}
  THEN Parsed(JsUndefined)
  ELSE ZodParse(zodType.type, val)

\* zodType.parse(val) for a schema of the shape
ZodTypeParse(zodType, val) ==
  IF val = JsUndefined /\ zodType.wrap = "default" THEN Parsed(zodType.default)
  ELSE IF val = JsUndefined /\ zodType.wrap = "optional" THEN Parsed(JsUndefined)
  ELSE ZodParse(zodType.type, val)

\* coercedArgs[param.name]: the arguments have no property of Object.prototype's
\* names
ArgValue(args, name) ==
  IF HasOwn(args, name) THEN ParamValue(args, name) ELSE JsUndefined

\* the manual coercion of validateArgs for one parameter
ManualCoercion(param, value) ==
  IF value = JsUndefined THEN value
  ELSE IF param.type = "string"
  THEN IF value.type # "string" THEN Str(StringOf(value)) ELSE value
  ELSE IF param.type = "number"
  THEN IF value.type = "string" /\ StringToNumber(value.str).type = "number"
       THEN StringToNumber(value.str)
       ELSE value
  ELSE value

\* the message of the ZodError of zodSchema.parse: its issues, by path
ZodErrorMessage(paths) == <<"ZodError", paths>>

\* validateArgs(args) of a tool whose shape was built: what it returns
ValidateArgs(parameters, args) ==
  LET shape == GetZodShape(parameters).shape
      parsed == [k \in 1..Len(parameters) |->
                   ZodTypeParse(shape[k].zodType,
                      ManualCoercion(parameters[k],
                                     ArgValue(args, parameters[k].name)))]
      failed == {k \in 1..Len(parameters) : ~parsed[k].ok}
      set == {k \in 1..Len(parameters) : parsed[k].value # JsUndefined}
      Pick[k \in 0..Len(parameters)] ==
        IF k = 0 THEN <<>>
        ELSE IF k \in set
        THEN Append(Pick[k - 1],
                    [name |-> parameters[k].name, value |-> parsed[k].value])
        ELSE Pick[k - 1]
      Paths[k \in 0..Len(parameters)] ==
        IF k = 0 THEN <<>>
        ELSE IF k \in failed THEN Append(Paths[k - 1], parameters[k].name)
        ELSE Paths[k - 1]
  IN  IF failed = {}
      THEN [success |-> TRUE, parsedArgs |-> Pick[Len(parameters)],
            error |-> <<>>]
      ELSE [success |-> FALSE, parsedArgs |-> <<>>,
            error |-> ZodErrorMessage(Paths[Len(parameters)])]

\* a ParameterSchema without the refinement of the default's type
ParameterSchemaAnyDefault(param) ==
  ~(param.required = Bool(FALSE) /\ param.default = JsUndefined)

\* ParameterSchema: its two refinements
ParameterSchema(param) ==
  /\ ~(param.required = Bool(FALSE) /\ param.default = JsUndefined)
  /\ param.default # JsUndefined => TypeOf(param.default) = param.type

(***************************************************************************)
(* State.                                                                  *)
(***************************************************************************)
VARIABLES
  pc,          \* where each invocation of executeQuery is suspended
  call,        \* the (statement, parsedArgs) the invocations are called with
  plugins,     \* the plugins argument the host passes to every invocation
  hookIdx,     \* the beforeQuery callback in flight (0: none of the registry's)
  pgSettings,  \* mergedResult.pgSettings while the hook runs, then pgSettings
  client,      \* the connection pool.connect resolved to (NoClient: undefined)
  waitingOn,   \* the operation ensureClientQueue awaits (NoOp: none)
  op,          \* the promise of the invocation's queued operation
  log,         \* what the invocation called on the pool and its connection
  outcome,     \* the promise executeQuery returned
  released,    \* how many times the invocation called client.release()
  queue,       \* client[$$queue]: the invocation whose promise it holds
  callbacks,   \* callbacksByHook.get('beforeQuery'): the plugin names
  settingsMaps,  \* the Map objects the plugins return: their content, the one
                 \* pgSettings of an invocation is, the keys returned to it
  toolStatement,  \* buildSafeQuery alone: its statement argument
  parsedArgs,     \* buildSafeQuery alone: its parameters argument
  binding,        \* buildSafeQuery alone: what the call returned or threw
  callbacksByHook,    \* PluginRegistry: callbacksByHook.get('beforeQuery')
  registeredPlugins,  \* PluginRegistry: the Map of plugins by name
  registrations,      \* PluginRegistry: the register/registerHook calls made
  hook,               \* PluginRegistry: each executeHook call, where it stands
  hookTrace,          \* PluginRegistry: the callbacks each call ran, in order
  pools,       \* ConnectionManager: the Map of pools by source name
  created,     \* ConnectionManager: every Pool constructed, in order
  returned,    \* ConnectionManager: what each getPool call was given and returned
               \* (the pool and whether end() had been called on it)
  cleared,     \* ConnectionManager: how many times closeAll cleared the Map
  closing,     \* ConnectionManager: the closeAll call, where it stands
  toolParameters,     \* tool handler: the parameters of its toolConfig
  handlerArgs,        \* tool handler: the args it was called with
  handlerPc,          \* tool handler: where the call stands
  validation,         \* tool handler: what validateArgs returned
  executeQueryCalls,  \* tool handler: the parsedArgs of each executeQuery call
  handlerResult,      \* tool handler: what it returned
  config,        \* configuration: the ToolboxConfig
  validated,     \* configuration: what validateConfig(config) did
  added,         \* configuration: what addToolsToMcpServer(server, config) did
  serverTools    \* configuration: the tools server.tool registered, in order

engineVars == <<pc, call, plugins, hookIdx, pgSettings, client, waitingOn, op,
                log, outcome, released, queue, callbacks, settingsMaps>>

binderVars == <<toolStatement, parsedArgs, binding>>

registryVars == <<callbacksByHook, registeredPlugins, registrations, hook,
                  hookTrace>>

poolVars == <<pools, created, returned, cleared, closing>>

handlerVars == <<toolParameters, handlerArgs, handlerPc, validation,
                 executeQueryCalls, handlerResult>>

configVars == <<config, validated, added, serverTools>>

loaderVars == <<handlerVars, configVars>>

vars == <<engineVars, binderVars, registryVars, poolVars, loaderVars>>

\* buildSafeQuery has not been called
NotBound == [called |-> FALSE]

\* buildSafeQuery alone is not exercised
BinderQuiet ==
  /\ toolStatement = <<>>
  /\ parsedArgs = <<>>
  /\ binding = NotBound

\* no closeAll call has been made
NotClosing ==
  [state |-> "idle", snapshot |-> {}, last |-> "none", error |-> <<>>,
   caller |-> "none", cleanup |-> [state |-> "none", error |-> <<>>]]

\* the error the promise of end() of pool p rejects with
EndError(p) == <<"end failed", p>>

\* a ConnectionManager as constructed, with no call made on it
PoolQuiet ==
  /\ pools = <<>>
  /\ created = <<>>
  /\ returned = <<>>
  /\ cleared = 0
  /\ closing = NotClosing

\* a Pool as constructed: end() has not been called on it
NewPool(sourceName, connectionString, era) ==
  [name |-> sourceName, connectionString |-> connectionString,
   cleared |-> era, ended |-> "no", endCall |-> "none"]

\* an executeHook call that has not been made
NotCalled == [state |-> "idle", idx |-> 0, merged |-> <<>>, error |-> <<>>]

\* a PluginRegistry as constructed, with no call made on it
RegistryQuiet ==
  /\ callbacksByHook = <<>>
  /\ registeredPlugins = <<>>
  /\ registrations = <<>>
  /\ hook = [e \in Executions |-> NotCalled]
  /\ hookTrace = [e \in Executions |-> <<>>]

\* validateArgs has not been called
NotValidated == [success |-> FALSE, parsedArgs |-> <<>>, error |-> <<>>]

\* the handler has not returned
NoResult == [isError |-> FALSE, text |-> <<>>]

\* no tool handler is called
HandlerQuiet ==
  /\ toolParameters = <<>>
  /\ handlerArgs = <<>>
  /\ handlerPc = "idle"
  /\ validation = NotValidated
  /\ executeQueryCalls = <<>>
  /\ handlerResult = NoResult

\* a function of the configuration that has not been called
NotRun == [state |-> "none", message |-> <<>>]

\* no configuration is validated or loaded
ConfigQuiet ==
  /\ config = [sources |-> {}, tools |-> <<>>]
  /\ validated = NotRun
  /\ added = NotRun
  /\ serverTools = <<>>

LoaderQuiet == HandlerQuiet /\ ConfigQuiet

NoClient == 0
NoOp == 0

TxnKinds == {"BEGIN", "SET", "QUERY", "COMMIT", "ROLLBACK"}

SetConfigText ==
  <<"SELECT set_config(el->>0, el->>1, true) FROM json_array_elements($1::json) el">>

\* an entry of log
Ev(ev, kind, conn, text, values) ==
  [ev |-> ev, kind |-> kind, conn |-> conn, text |-> text, values |-> values]

Called(what, conn) == Ev("call", what, conn, <<>>, <<>>)
Issued(kind, conn, text, values) == Ev("issue", kind, conn, text, values)
Settled(kind, conn, ok) == Ev(IF ok THEN "ok" ELSE "fail", kind, conn, <<>>, <<>>)

\* const { text, values } = buildSafeQuery(toolConfig.statement, parsedArgs)
Bound(cl) == BuildSafeQuery(Statements[cl[1]], ArgObjects[cl[2]])

\* the context of the hook with the template in the place of the bound text
HookCalledUnbound == Ev("call", "executeHook", NoClient, Statements[call[1]], <<>>)

\* plugins.executeHook('beforeQuery', context) is called (context.query is
\* the text of buildSafeQuery), resolves, rejects
HookCalled == Ev("call", "executeHook", NoClient, Bound(call).text, <<>>)
HookSettled(ok) == Settled("executeHook", NoClient, ok)

\* the k-th callback of the registry is called with the context of the hook
CallbackCalled(k) == Ev("call", "callback", k, Bound(call).text, <<>>)

\* the Map objects a callback (or executeHook of another implementation)
\* returns: a plugin may return the same object at every call
PluginMaps == {r \in CallbackResults : r.defined}

\* map.keys()
MapKeys(m) == {m[k][1] : k \in 1..Len(m)}

\* no hook has run: every Map has the content its plugin gave it
NoMaps ==
  [content |-> [r \in PluginMaps |-> r.entries],
   held |-> [i \in Invocations |-> NoSettings],
   contributed |-> [i \in Invocations |-> {}]]

\* what the callback returns when it returns r: the Map as it is now
Returned(r) == IF r.defined THEN Settings(settingsMaps.content[r]) ELSE r

\* the invocation received r from its hook
Received(maps, i, r) ==
  [maps EXCEPT !.contributed[i] = @ \cup MapKeys(Returned(r).entries)]

\* a role synthesis that writes to the Map pgSettings is
EnhancedInPlace(maps, i) ==
  IF maps.held[i].defined
  THEN [maps EXCEPT !.content[maps.held[i]] = EnhancedSettings(@)]
  ELSE maps

\* line 136: enhancedSettings = new Map(pgSettings) is a copy, the role is
\* set on the copy and no Map of a plugin is written to
EnhancedCopy(maps, i) == maps

\* the statement of each client.query / pool.query call; the settings travel
\* as the one value JSON.stringify(settingsEntries) of the set_config statement
Statement(cl, settings, kind, conn) ==
  CASE kind = "SET" ->
         Issued(kind, conn, SetConfigText, <<EnhancedSettings(settings.entries)>>)
    [] kind \in {"QUERY", "POOLQUERY"} ->
         Issued(kind, conn, Bound(cl).text, Bound(cl).values)
    [] OTHER -> Issued(kind, conn, <<kind>>, <<>>)

\* the order of the statements in the try block of the queued operation
NextStatementNoSettings(kind) ==
  CASE kind = "BEGIN" -> "QUERY"
    [] kind = "SET" -> "QUERY"
    [] kind = "QUERY" -> "COMMIT"

NextStatement(kind) ==
  CASE kind = "BEGIN" -> "SET"
    [] kind = "SET" -> "QUERY"
    [] kind = "QUERY" -> "COMMIT"

TypeOK ==
  /\ pc \in [Invocations -> {"idle", "hook", "connecting", "waiting", "ensured",
                             "poolQuery", "settled", "done"} \cup TxnKinds]
  /\ call \in Calls
  /\ plugins \in PluginKinds
  /\ hookIdx \in [Invocations -> 0..MaxCallbacks]
  /\ client \in [Invocations -> Clients \cup {NoClient}]
  /\ waitingOn \in [Invocations -> Invocations \cup {NoOp}]
  /\ released \in [Invocations -> 0..1]
  /\ queue \in [Clients -> Invocations \cup {NoOp}]
  /\ Len(callbacks) <= MaxCallbacks

Init ==
  /\ pc = [i \in Invocations |-> "idle"]
  /\ call \in Calls
  /\ plugins \in PluginKinds
  /\ hookIdx = [i \in Invocations |-> 0]
  /\ pgSettings = [i \in Invocations |-> NoSettings]
  /\ client = [i \in Invocations |-> NoClient]
  /\ waitingOn = [i \in Invocations |-> NoOp]
  /\ op = [i \in Invocations |-> [state |-> "none", error |-> <<>>]]
  /\ log = [i \in Invocations |-> <<>>]
  /\ outcome = [i \in Invocations |-> Pending]
  /\ released = [i \in Invocations |-> 0]
  /\ queue = [c \in Clients |-> NoOp]
  /\ callbacks \in {[k \in 1..n |-> <<"plugin", k>>] : n \in 0..MaxCallbacks}
  /\ plugins # "registry" => callbacks = <<>>
  /\ settingsMaps = NoMaps
  /\ BinderQuiet
  /\ RegistryQuiet
  /\ PoolQuiet
  /\ LoaderQuiet

(***************************************************************************)
(* The end of executeQuery: the return of the try or the catch block, then *)
(* the finally block, which resets the queue slot and releases the         *)
(* connection when one was checked out.  An exception of release() leaves  *)
(* the finally block and replaces the returned result.                     *)
(***************************************************************************)
CompleteReleaseInTry(i, evs, res, relOk) ==
  /\ pc' = [pc EXCEPT ![i] = "done"]
  /\ IF client[i] = NoClient \/ res.isError
     THEN /\ outcome' = [outcome EXCEPT ![i] = res]
          /\ log' = [log EXCEPT ![i] = @ \o evs]
          /\ UNCHANGED <<released, queue>>
     ELSE /\ queue' = [queue EXCEPT ![client[i]] = NoOp]
          /\ released' = [released EXCEPT ![i] = @ + 1]
          /\ log' = [log EXCEPT ![i] = @ \o evs \o
                       IF relOk THEN <<Called("release", client[i])>>
                       ELSE <<Called("release", client[i]),
                              Settled("release", client[i], FALSE)>>]
          /\ outcome' = [outcome EXCEPT
                           ![i] = IF relOk THEN res ELSE Rejection(ErrRelease)]

\* a finally block that releases the connection with the slot as it is
CompleteKeepSlot(i, evs, res, relOk) ==
  /\ pc' = [pc EXCEPT ![i] = "done"]
  /\ IF client[i] = NoClient
     THEN /\ outcome' = [outcome EXCEPT ![i] = res]
          /\ log' = [log EXCEPT ![i] = @ \o evs]
          /\ UNCHANGED <<released, queue>>
     ELSE /\ UNCHANGED queue
          /\ released' = [released EXCEPT ![i] = @ + 1]
          /\ log' = [log EXCEPT ![i] = @ \o evs \o
                       IF relOk THEN <<Called("release", client[i])>>
                       ELSE <<Called("release", client[i]),
                              Settled("release", client[i], FALSE)>>]
          /\ outcome' = [outcome EXCEPT
                           ![i] = IF relOk THEN res ELSE Rejection(ErrRelease)]

Complete(i, evs, res, relOk) ==
  /\ pc' = [pc EXCEPT ![i] = "done"]
  /\ IF client[i] = NoClient
     THEN /\ outcome' = [outcome EXCEPT ![i] = res]
          /\ log' = [log EXCEPT ![i] = @ \o evs]
          /\ UNCHANGED <<released, queue>>
     ELSE /\ queue' = [queue EXCEPT ![client[i]] = NoOp]
          /\ released' = [released EXCEPT ![i] = @ + 1]
          /\ log' = [log EXCEPT ![i] = @ \o evs \o
                       IF relOk THEN <<Called("release", client[i])>>
                       ELSE <<Called("release", client[i]),
                              Settled("release", client[i], FALSE)>>]
          /\ outcome' = [outcome EXCEPT
                           ![i] = IF relOk THEN res ELSE Rejection(ErrRelease)]

\* lines 119-124 and 160-162: the hook is over, its pgSettings choose the path
AfterHook(i, evs, settings) ==
  /\ pgSettings' = [pgSettings EXCEPT ![i] = settings]
  /\ IF NeedsTransaction(settings)
     THEN /\ pc' = [pc EXCEPT ![i] = "connecting"]
          /\ log' = [log EXCEPT ![i] = @ \o evs \o <<Called("connect", NoClient)>>]
     ELSE /\ pc' = [pc EXCEPT ![i] = "poolQuery"]
          /\ log' = [log EXCEPT ![i] = @ \o evs \o
                       <<Statement(call, settings, "POOLQUERY", NoClient)>>]

\* lines 96-103: the calls of getPool and buildSafeQuery made before the step
\* that failed ("ok": none failed)
Looked(early) ==
  CASE early = "connectionString" -> <<>>
    [] early = "getPool" -> <<Called("getPool", NoClient)>>
    [] OTHER -> <<Called("getPool", NoClient), Called("buildSafeQuery", NoClient)>>

(***************************************************************************)
(* executeQuery up to its first suspension: the connection string, the     *)
(* pool, the bound statement, and the call of executeHook, which runs as   *)
(* far as the call of the first callback.                                  *)
(***************************************************************************)
Start(i, early) ==
  /\ pc[i] = "idle"
  /\ \A j \in Invocations : j < i => pc[j] # "idle"
  /\ UNCHANGED <<call, plugins, client, waitingOn, op, callbacks, settingsMaps>>
  /\ IF early # "ok"
     THEN /\ Complete(i, Looked(early) \o <<Settled(early, NoClient, FALSE)>>,
                ErrorResult(ToolName(i),
                  IF early = "connectionString" THEN ErrConnStr ELSE ErrGetPool),
                TRUE)
          /\ UNCHANGED <<hookIdx, pgSettings>>
     ELSE IF ~Bound(call).ok
     THEN /\ Complete(i, Looked("buildSafeQuery") \o
                             <<Settled("buildSafeQuery", NoClient, FALSE)>>,
                ErrorResult(ToolName(i), Bound(call).error), TRUE)
          /\ UNCHANGED <<hookIdx, pgSettings>>
     ELSE IF plugins = "none"
     THEN /\ AfterHook(i, Looked("ok"), NoSettings)
          /\ UNCHANGED <<hookIdx, outcome, released, queue>>
     ELSE IF plugins = "registry" /\ callbacks = <<>>
     THEN /\ AfterHook(i, Looked("ok") \o <<HookCalled, HookSettled(TRUE)>>,
                       Settings(<<>>))
          /\ UNCHANGED <<hookIdx, outcome, released, queue>>
     ELSE /\ pc' = [pc EXCEPT ![i] = "hook"]
          /\ hookIdx' = [hookIdx EXCEPT ![i] = IF plugins = "registry" THEN 1 ELSE 0]
          /\ pgSettings' = [pgSettings EXCEPT ![i] = Settings(<<>>)]
          /\ log' = [log EXCEPT ![i] = @ \o Looked("ok") \o
                       IF plugins = "registry"
                       THEN <<HookCalled, CallbackCalled(1)>>
                       ELSE <<HookCalled>>]
          /\ UNCHANGED <<outcome, released, queue>>

(***************************************************************************)
(* executeBeforeQueryHook: the callback in flight resolves; its pgSettings *)
(* are merged and the next callback is called, or the hook returns.        *)
(***************************************************************************)
HookReturn(i, r) ==
  /\ pc[i] = "hook"
  /\ plugins = "registry"
  /\ settingsMaps' = Received(settingsMaps, i, r)
  /\ LET merged == IF r.defined
                   THEN MergeSettings(pgSettings[i].entries, Returned(r).entries)
                   ELSE pgSettings[i].entries
     IN  IF hookIdx[i] < Len(callbacks)
         THEN /\ hookIdx' = [hookIdx EXCEPT ![i] = @ + 1]
              /\ pgSettings' = [pgSettings EXCEPT ![i] = Settings(merged)]
              /\ log' = [log EXCEPT ![i] = Append(@, CallbackCalled(hookIdx[i] + 1))]
              /\ UNCHANGED pc
         ELSE /\ hookIdx' = [hookIdx EXCEPT ![i] = 0]
              /\ AfterHook(i, <<HookSettled(TRUE)>>, Settings(merged))
  /\ UNCHANGED <<call, plugins, client, waitingOn, op, outcome, released, queue,
                 callbacks>>

\* executeHook of another implementation of Plugins resolves
OtherHookReturn(i, r) ==
  /\ pc[i] = "hook"
  /\ plugins = "other"
  /\ AfterHook(i, <<HookSettled(TRUE)>>, Returned(r))
  /\ settingsMaps' = [Received(settingsMaps, i, r) EXCEPT !.held[i] = r]
  /\ UNCHANGED <<call, plugins, hookIdx, client, waitingOn, op, outcome, released,
                 queue, callbacks>>

\* a hook failure that is swallowed: the query runs without settings
HookThrowFallback(i) ==
  /\ pc[i] = "hook"
  /\ hookIdx' = [hookIdx EXCEPT ![i] = 0]
  /\ AfterHook(i, <<HookSettled(FALSE)>>, NoSettings)
  /\ UNCHANGED <<call, plugins, client, waitingOn, op, outcome, released, queue,
                 callbacks, settingsMaps>>

\* the callback in flight (or executeHook of another implementation) throws
\* or rejects: executeHook rejects, pgSettings of executeQuery stays undefined
HookThrow(i) ==
  /\ pc[i] = "hook"
  /\ hookIdx' = [hookIdx EXCEPT ![i] = 0]
  /\ pgSettings' = [pgSettings EXCEPT ![i] = NoSettings]
  /\ Complete(i, <<HookSettled(FALSE)>>, ErrorResult(ToolName(i), ErrHook), TRUE)
  /\ UNCHANGED <<call, plugins, client, waitingOn, op, callbacks, settingsMaps>>

(***************************************************************************)
(* pool.connect() settles.  The pool is the caller's: it may resolve to a  *)
(* connection object another invocation holds.  ensureClientQueue then     *)
(* runs to its await (a pending operation in the slot) or returns, and     *)
(* executeQuery awaits the promise it returned.                            *)
(***************************************************************************)
ConnectOk(i, c) ==
  /\ pc[i] = "connecting"
  /\ client' = [client EXCEPT ![i] = c]
  /\ log' = [log EXCEPT ![i] = Append(@, Called("connected", c))]
  /\ IF queue[c] # NoOp
     THEN /\ pc' = [pc EXCEPT ![i] = "waiting"]
          /\ waitingOn' = [waitingOn EXCEPT ![i] = queue[c]]
     ELSE /\ pc' = [pc EXCEPT ![i] = "ensured"]
          /\ UNCHANGED waitingOn
  /\ UNCHANGED <<call, plugins, hookIdx, pgSettings, op, outcome, released, queue,
                 callbacks, settingsMaps>>

ConnectFail(i) ==
  /\ pc[i] = "connecting"
  /\ Complete(i, <<Settled("connect", NoClient, FALSE)>>,
        ErrorResult(ToolName(i), ErrConnect), TRUE)
  /\ UNCHANGED <<call, plugins, hookIdx, pgSettings, client, waitingOn, op,
                 callbacks, settingsMaps>>

(***************************************************************************)
(* The promise ensureClientQueue awaits settles.  Fulfilled: the loop      *)
(* tests the slot again.  Rejected: the await throws, ensureClientQueue    *)
(* rejects and executeQuery goes to its catch and finally blocks.          *)
\* a wait that is woken by the rejection of the awaited promise only
WaitWakeOnRejection(i, relOk) ==
  /\ pc[i] = "waiting"
  /\ op[waitingOn[i]].state = "rejected"
  /\ IF op[waitingOn[i]].state = "rejected"
     THEN /\ Complete(i, <<Settled("queue", client[i], FALSE)>>,
                ErrorResult(ToolName(i), op[waitingOn[i]].error), relOk)
          /\ waitingOn' = [waitingOn EXCEPT ![i] = NoOp]
     ELSE /\ relOk
          /\ IF queue[client[i]] # NoOp
             THEN /\ waitingOn' = [waitingOn EXCEPT ![i] = queue[client[i]]]
                  /\ UNCHANGED pc
             ELSE /\ waitingOn' = [waitingOn EXCEPT ![i] = NoOp]
                  /\ pc' = [pc EXCEPT ![i] = "ensured"]
          /\ UNCHANGED <<log, outcome, released, queue>>
  /\ UNCHANGED <<call, plugins, hookIdx, pgSettings, client, op, callbacks, settingsMaps>>

(***************************************************************************)
WaitWake(i, relOk) ==
  /\ pc[i] = "waiting"
  /\ op[waitingOn[i]].state \in {"fulfilled", "rejected"}
  /\ IF op[waitingOn[i]].state = "rejected"
     THEN /\ Complete(i, <<Settled("queue", client[i], FALSE)>>,
                ErrorResult(ToolName(i), op[waitingOn[i]].error), relOk)
          /\ waitingOn' = [waitingOn EXCEPT ![i] = NoOp]
     ELSE /\ relOk
          /\ IF queue[client[i]] # NoOp
             THEN /\ waitingOn' = [waitingOn EXCEPT ![i] = queue[client[i]]]
                  /\ UNCHANGED pc
             ELSE /\ waitingOn' = [waitingOn EXCEPT ![i] = NoOp]
                  /\ pc' = [pc EXCEPT ![i] = "ensured"]
          /\ UNCHANGED <<log, outcome, released, queue>>
  /\ UNCHANGED <<call, plugins, hookIdx, pgSettings, client, op, callbacks, settingsMaps>>

(***************************************************************************)
(* Line 130: the queued operation is created and stored in the slot; it    *)
(* runs to the await of BEGIN.                                             *)
(***************************************************************************)
BeginOp(i) ==
  /\ pc[i] = "ensured"
  /\ queue' = [queue EXCEPT ![client[i]] = i]
  /\ op' = [op EXCEPT ![i] = [state |-> "pending", error |-> <<>>]]
  /\ pc' = [pc EXCEPT ![i] = "BEGIN"]
  /\ log' = [log EXCEPT ![i] =
               Append(@, Statement(call, pgSettings[i], "BEGIN", client[i]))]
  /\ UNCHANGED <<call, plugins, hookIdx, pgSettings, client, waitingOn, outcome,
                 released, callbacks, settingsMaps>>

\* the statement in flight succeeds
StmtOk(i) ==
  /\ pc[i] \in TxnKinds
  /\ IF pc[i] \in {"COMMIT", "ROLLBACK"}
     THEN /\ pc' = [pc EXCEPT ![i] = "settled"]
          /\ op' = [op EXCEPT ![i].state =
                      IF pc[i] = "COMMIT" THEN "fulfilled" ELSE "rejected"]
          /\ log' = [log EXCEPT ![i] = Append(@, Settled(pc[i], client[i], TRUE))]
          /\ UNCHANGED settingsMaps
     ELSE /\ pc' = [pc EXCEPT ![i] = NextStatement(pc[i])]
          /\ settingsMaps' = IF NextStatement(pc[i]) = "SET"
                             THEN EnhancedCopy(settingsMaps, i)
                             ELSE settingsMaps
          /\ log' = [log EXCEPT ![i] = @ \o
                       << Settled(pc[i], client[i], TRUE),
                          Statement(call, pgSettings[i], NextStatement(pc[i]),
                                    client[i]) >>]
          /\ UNCHANGED op
  /\ UNCHANGED <<call, plugins, hookIdx, pgSettings, client, waitingOn, outcome,
                 released, queue, callbacks>>

\* the error the queued operation rejects with when ROLLBACK fails after
\* the error caught: the catch block is left by the exception of ROLLBACK
RollbackFailure(caught) == StmtErr("ROLLBACK")

\* a failed settings statement that is ignored
AfterFailureIgnoreSettings(kind) == IF kind = "SET" THEN "QUERY" ELSE "ROLLBACK"

\* a failed main query after which the transaction is committed
AfterFailureCommit(kind) == IF kind = "QUERY" THEN "COMMIT" ELSE "ROLLBACK"

\* the catch block of the queued operation
AfterFailure(kind) == "ROLLBACK"

\* the statement in flight fails
StmtFail(i) ==
  /\ pc[i] \in TxnKinds
  /\ IF pc[i] = "ROLLBACK"
     THEN /\ pc' = [pc EXCEPT ![i] = "settled"]
          /\ op' = [op EXCEPT ![i] =
                      [state |-> "rejected", error |-> RollbackFailure(op[i].error)]]
          /\ log' = [log EXCEPT ![i] = Append(@, Settled(pc[i], client[i], FALSE))]
     ELSE /\ pc' = [pc EXCEPT ![i] = AfterFailure(pc[i])]
          /\ op' = [op EXCEPT ![i].error = StmtErr(pc[i])]
          /\ log' = [log EXCEPT ![i] = @ \o
                       << Settled(pc[i], client[i], FALSE),
                          Statement(call, pgSettings[i], AfterFailure(pc[i]),
                                    client[i]) >>]
  /\ UNCHANGED <<call, plugins, hookIdx, pgSettings, client, waitingOn, outcome,
                 released, queue, callbacks, settingsMaps>>

(***************************************************************************)
(* Line 159: the await of the invocation's own operation ends; the result  *)
(* is returned or the error caught, and the finally block runs.            *)
(***************************************************************************)
Finish(i, relOk) ==
  /\ pc[i] = "settled"
  /\ Complete(i, <<>>,
        IF op[i].state = "fulfilled" THEN SuccessResult(Rows)
        ELSE ErrorResult(ToolName(i), op[i].error), relOk)
  /\ UNCHANGED <<call, plugins, hookIdx, pgSettings, client, waitingOn, op,
                 callbacks, settingsMaps>>

\* line 162: pool.query settles
PoolQueryOk(i) ==
  /\ pc[i] = "poolQuery"
  /\ Complete(i, <<Settled("POOLQUERY", NoClient, TRUE)>>, SuccessResult(Rows), TRUE)
  /\ UNCHANGED <<call, plugins, hookIdx, pgSettings, client, waitingOn, op,
                 callbacks, settingsMaps>>

PoolQueryFail(i) ==
  /\ pc[i] = "poolQuery"
  /\ Complete(i, <<Settled("POOLQUERY", NoClient, FALSE)>>,
        ErrorResult(ToolName(i), StmtErr("POOLQUERY")), TRUE)
  /\ UNCHANGED <<call, plugins, hookIdx, pgSettings, client, waitingOn, op,
                 callbacks, settingsMaps>>

Next ==
  /\ UNCHANGED <<binderVars, registryVars, poolVars, loaderVars>>
  /\ \E i \in Invocations :
      \/ \E early \in {"ok", "connectionString", "getPool"} : Start(i, early)
      \/ \E r \in CallbackResults : HookReturn(i, r)
      \/ \E r \in CallbackResults : OtherHookReturn(i, r)
      \/ HookThrow(i)
      \/ \E c \in Clients : ConnectOk(i, c)
      \/ ConnectFail(i)
      \/ \E relOk \in BOOLEAN : WaitWake(i, relOk)
      \/ BeginOp(i)
      \/ StmtOk(i)
      \/ StmtFail(i)
      \/ \E relOk \in BOOLEAN : Finish(i, relOk)
      \/ PoolQueryOk(i)
      \/ PoolQueryFail(i)

Spec == Init /\ [][Next]_vars

(***************************************************************************)
(* executeQuery under the scheduling of the host: every promise an         *)
(* invocation awaits (the hook, pool.connect, a statement, the operation   *)
(* in the slot) settles, and the continuation of a settled await runs.     *)
(***************************************************************************)
Progress(i) ==
  /\ UNCHANGED <<binderVars, registryVars, poolVars, loaderVars>>
  /\ \/ \E r \in CallbackResults : HookReturn(i, r)
     \/ \E r \in CallbackResults : OtherHookReturn(i, r)
     \/ HookThrow(i)
     \/ \E c \in Clients : ConnectOk(i, c)
     \/ ConnectFail(i)
     \/ \E relOk \in BOOLEAN : WaitWake(i, relOk)
     \/ BeginOp(i)
     \/ StmtOk(i)
     \/ StmtFail(i)
     \/ \E relOk \in BOOLEAN : Finish(i, relOk)
     \/ PoolQueryOk(i)
     \/ PoolQueryFail(i)

\* the calls of the fair specification: a statement that binds and one that
\* does not, at most one callback
FairInit ==
  /\ Init
  /\ call \in {<<2, 2>>, <<4, 2>>}
  /\ Len(callbacks) <= 1

FairSpec ==
  FairInit /\ [][Next]_vars /\ \A i \in Invocations : WF_vars(Progress(i))

(***************************************************************************)
(* buildSafeQuery alone: one call on a statement and an argument object    *)
(* drawn from bounded sets.                                                *)
(***************************************************************************)
\* the pieces statements are made of: named placeholders (one a property of
\* Object.prototype), a word character, a positional placeholder, a dollar
\* sign, a colon, a space
Tokens ==
  { <<":", "a">>, <<":", "b">>, <<"b">>, <<"$", "1">>, <<"$">>, <<":">>, <<" ">>,
    <<":", "v", "a", "l", "u", "e", "O", "f">> }

RECURSIVE Flatten(_)
Flatten(ts) == IF ts = <<>> THEN <<>> ELSE Head(ts) \o Flatten(Tail(ts))

\* toolConfig.statement: z.string().min(1)
BinderStatements ==
  {Flatten(ts) : ts \in UNION {[1..n -> Tokens] : n \in 1..MaxTokens}}

\* parameter names: z.string().min(1)
ArgNames == { <<"a">>, <<"b">>, <<"1">>, <<"a", "b">> }

\* argument objects: distinct names in any insertion order
BinderArgs ==
  { o \in UNION {[1..n -> [name : ArgNames, value : Values]] : n \in 0..MaxArgs} :
      \A j, k \in 1..Len(o) : j # k => o[j].name # o[k].name }

\* no invocation of executeQuery is made
EngineQuiet ==
  /\ pc = [i \in Invocations |-> "idle"]
  /\ call = <<1, 1>>
  /\ plugins = "none"
  /\ hookIdx = [i \in Invocations |-> 0]
  /\ pgSettings = [i \in Invocations |-> NoSettings]
  /\ client = [i \in Invocations |-> NoClient]
  /\ waitingOn = [i \in Invocations |-> NoOp]
  /\ op = [i \in Invocations |-> [state |-> "none", error |-> <<>>]]
  /\ log = [i \in Invocations |-> <<>>]
  /\ outcome = [i \in Invocations |-> Pending]
  /\ released = [i \in Invocations |-> 0]
  /\ queue = [c \in Clients |-> NoOp]
  /\ callbacks = <<>>
  /\ settingsMaps = NoMaps

BinderInit ==
  /\ toolStatement \in BinderStatements
  /\ parsedArgs \in BinderArgs
  /\ binding = NotBound
  /\ EngineQuiet
  /\ RegistryQuiet
  /\ PoolQuiet
  /\ LoaderQuiet

\* the call buildSafeQuery(toolConfig.statement, parsedArgs)
Bind ==
  /\ ~binding.called
  /\ binding' = [called |-> TRUE] @@ BuildSafeQuery(toolStatement, parsedArgs)
  /\ UNCHANGED <<toolStatement, parsedArgs, engineVars, registryVars, poolVars, loaderVars>>

BinderNext == Bind

BinderSpec == BinderInit /\ [][BinderNext]_vars

(***************************************************************************)
(* PluginRegistry alone: register and registerHook calls and concurrent    *)
(* calls of executeHook('beforeQuery', context).  A callback is identified *)
(* by the number of the registration call that brought it.                 *)
(***************************************************************************)
PluginNames == {"p1", "p2"}

\* a pluginName argument that is left out
Undefined == ""

\* pluginName || 'anonymous'
OrAnonymous(pluginName) ==
  IF pluginName = Undefined THEN "anonymous" ELSE pluginName

\* what a beforeQuery callback of the registry's callers can resolve to: two
\* of the results set the same key
RegistryResults == {
  NoSettings,
  Settings(<<>>),
  Settings(<< <<"role", "authenticated">> >>),
  Settings(<< <<"role", "admin">>, <<"user.id", "u1">> >>) }

\* the Error a callback throws or rejects with
CallbackError(cb) == <<"plugin callback failed", cb>>

\* an entry of hookTrace
HookEv(ev, cb, result) == [ev |-> ev, callback |-> cb, result |-> result]

\* an array method that adds at the front
Unshift(list, entry) == <<entry>> \o list

\* a push that first removes the callbacks the plugin name already has
PushReplacing(list, entry) ==
  Append(SelectSeq(list, LAMBDA c : c.pluginName # entry.pluginName), entry)

\* Array.prototype.push
Push(list, entry) == Append(list, entry)

RegistryInit ==
  /\ RegistryQuiet
  /\ EngineQuiet
  /\ BinderQuiet
  /\ PoolQuiet
  /\ LoaderQuiet

\* the Plugin object of the next register call: its callbacks have a
\* beforeQuery callback or are empty
PluginObject(name, withCallback) ==
  [name |-> name, plugin |-> Len(registrations) + 1,
   callbacks |-> IF withCallback THEN <<Len(registrations) + 1>> ELSE <<>>]

\* getRegisteredPlugins(): Array.from(this.registeredPlugins.values())
GetRegisteredPlugins ==
  [k \in 1..Len(registeredPlugins) |-> registeredPlugins[k][2]]

\* getPlugin(name): this.registeredPlugins.get(name)
GetPlugin(name) ==
  IF MapHas(registeredPlugins, name) THEN MapGet(registeredPlugins, name)
  ELSE Undefined

\* a register that keeps the plugin a name already has
RegisterKeepFirst(name, withCallback) ==
  /\ Len(registrations) < MaxRegistrations
  /\ registrations' = Append(registrations,
                            [method |-> "register", name |-> name,
                             withCallback |-> withCallback])
  /\ registeredPlugins' =
       IF MapHas(registeredPlugins, name) THEN registeredPlugins
       ELSE MapSet(registeredPlugins, name, PluginObject(name, withCallback))
  /\ callbacksByHook' =
       IF withCallback
       THEN Push(callbacksByHook,
                 [pluginName |-> name, callback |-> Len(registrations) + 1])
       ELSE callbacksByHook
  /\ UNCHANGED <<hook, hookTrace, engineVars, binderVars, poolVars, loaderVars>>

\* register(plugin)
Register(name, withCallback) ==
  /\ Len(registrations) < MaxRegistrations
  /\ registrations' = Append(registrations,
                            [method |-> "register", name |-> name,
                             withCallback |-> withCallback])
  /\ registeredPlugins' =
       MapSet(registeredPlugins, name, PluginObject(name, withCallback))
  /\ callbacksByHook' =
       IF withCallback
       THEN Push(callbacksByHook,
                 [pluginName |-> name, callback |-> Len(registrations) + 1])
       ELSE callbacksByHook
  /\ UNCHANGED <<hook, hookTrace, engineVars, binderVars, poolVars, loaderVars>>

\* registerHook('beforeQuery', callback, pluginName?)
RegisterHook(pluginName) ==
  /\ Len(registrations) < MaxRegistrations
  /\ registrations' =
       Append(registrations,
              [method |-> "registerHook", name |-> OrAnonymous(pluginName),
               withCallback |-> TRUE])
  /\ callbacksByHook' =
       Push(callbacksByHook,
            [pluginName |-> OrAnonymous(pluginName),
             callback |-> Len(registrations) + 1])
  /\ UNCHANGED <<registeredPlugins, hook, hookTrace, engineVars, binderVars, poolVars, loaderVars>>

\* the loop of executeBeforeQueryHook reaches entry k of the array: the
\* callback is called and what it returns is awaited.  (A callback that
\* throws before it returns lands in the same catch block, with the state a
\* call followed by a rejection leaves.)
CallCallback(e, k, merged, evs) ==
  LET cb == callbacksByHook[k].callback
  IN  /\ hook' = [hook EXCEPT ![e] =
                    [state |-> "awaiting", idx |-> k, merged |-> merged,
                     error |-> <<>>]]
      /\ hookTrace' = [hookTrace EXCEPT ![e] = @ \o evs \o
                         <<HookEv("call", cb, NoSettings)>>]

\* the loop is over: executeBeforeQueryHook returns mergedResult
ReturnMerged(e, merged, evs) ==
  /\ hook' = [hook EXCEPT ![e] =
                [state |-> "resolved", idx |-> 0, merged |-> merged,
                 error |-> <<>>]]
  /\ hookTrace' = [hookTrace EXCEPT ![e] = @ \o evs]

\* executeHook('beforeQuery', context) is called and runs to its first await
ExecuteHook(e) ==
  /\ hook[e].state = "idle"
  /\ IF callbacksByHook = <<>>
     THEN ReturnMerged(e, <<>>, <<>>)
     ELSE CallCallback(e, 1, <<>>, <<>>)
  /\ UNCHANGED <<callbacksByHook, registeredPlugins, registrations, engineVars,
                 binderVars, poolVars, loaderVars>>

\* the awaited callback resolves to r: its pgSettings are merged and the
\* loop goes on with the array as it is now
CallbackResolve(e, r) ==
  /\ hook[e].state = "awaiting"
  /\ LET k == hook[e].idx
         cb == callbacksByHook[k].callback
         merged == IF r.defined THEN MergeSettings(hook[e].merged, r.entries)
                   ELSE hook[e].merged
         evs == <<HookEv("resolve", cb, r)>>
     IN  IF k < Len(callbacksByHook)
         THEN CallCallback(e, k + 1, merged, evs)
         ELSE ReturnMerged(e, merged, evs)
  /\ UNCHANGED <<callbacksByHook, registeredPlugins, registrations, engineVars,
                 binderVars, poolVars, loaderVars>>

\* a catch block that logs the error and lets the loop go on
CallbackRejectContinue(e) ==
  /\ hook[e].state = "awaiting"
  /\ LET k == hook[e].idx
         cb == callbacksByHook[k].callback
         evs == <<HookEv("reject", cb, NoSettings)>>
     IN  IF k < Len(callbacksByHook)
         THEN CallCallback(e, k + 1, hook[e].merged, evs)
         ELSE ReturnMerged(e, hook[e].merged, evs)
  /\ UNCHANGED <<callbacksByHook, registeredPlugins, registrations, engineVars,
                 binderVars, poolVars, loaderVars>>

\* the awaited callback rejects: the catch block logs and rethrows
CallbackReject(e) ==
  /\ hook[e].state = "awaiting"
  /\ LET cb == callbacksByHook[hook[e].idx].callback
     IN  /\ hook' = [hook EXCEPT ![e] =
                       [state |-> "rejected", idx |-> hook[e].idx,
                        merged |-> <<>>, error |-> CallbackError(cb)]]
         /\ hookTrace' = [hookTrace EXCEPT ![e] =
                            Append(@, HookEv("reject", cb, NoSettings))]
  /\ UNCHANGED <<callbacksByHook, registeredPlugins, registrations, engineVars,
                 binderVars, poolVars, loaderVars>>

RegistryNext ==
  \/ \E name \in PluginNames, withCallback \in BOOLEAN :
       Register(name, withCallback)
  \/ \E pluginName \in PluginNames \cup {Undefined} : RegisterHook(pluginName)
  \/ \E e \in Executions :
       \/ ExecuteHook(e)
       \/ \E r \in RegistryResults : CallbackResolve(e, r)
       \/ CallbackReject(e)

RegistrySpec == RegistryInit /\ [][RegistryNext]_vars

(***************************************************************************)
(* ConnectionManager alone: getPool and closeAll calls in any order.  A    *)
(* Pool is identified by its position in created.                          *)
(***************************************************************************)
SourceNames == {"db1", "db2"}

ConnectionStrings == {"postgresql://one", "postgresql://two"}

PoolInit ==
  /\ PoolQuiet
  /\ LoaderQuiet
  /\ EngineQuiet
  /\ BinderQuiet
  /\ RegistryQuiet

\* a getPool that creates a pool at every call
GetPoolAlwaysCreate(sourceName, connectionString) ==
  /\ Len(returned) < MaxGetPool
  /\ created' = Append(created, NewPool(sourceName, connectionString, cleared))
  /\ pools' = MapSet(pools, sourceName, Len(created) + 1)
  /\ returned' = Append(returned, [name |-> sourceName,
                                    connectionString |-> connectionString,
                                    cleared |-> cleared,
                                    pool |-> Len(created) + 1,
                                    ended |-> "no"])
  /\ UNCHANGED <<cleared, closing, engineVars, binderVars, registryVars, loaderVars>>

\* a getPool that keys the Map by the connection string
GetPoolByConnectionString(sourceName, connectionString) ==
  /\ Len(returned) < MaxGetPool
  /\ IF ~MapHas(pools, connectionString)
     THEN /\ created' = Append(created, NewPool(sourceName, connectionString, cleared))
          /\ pools' = MapSet(pools, connectionString, Len(created) + 1)
     ELSE UNCHANGED <<created, pools>>
  /\ returned' = Append(returned, [name |-> sourceName,
                                    connectionString |-> connectionString,
                                    cleared |-> cleared,
                                    pool |-> MapGet(pools', connectionString),
                                    ended |-> created'[MapGet(pools', connectionString)].ended])
  /\ UNCHANGED <<cleared, closing, engineVars, binderVars, registryVars, loaderVars>>

\* getPool(sourceName, connectionString): one synchronous run
GetPool(sourceName, connectionString) ==
  /\ Len(returned) < MaxGetPool
  /\ IF ~MapHas(pools, sourceName)
     THEN /\ created' = Append(created, NewPool(sourceName, connectionString, cleared))
          /\ pools' = MapSet(pools, sourceName, Len(created) + 1)
     ELSE UNCHANGED <<created, pools>>
  /\ returned' = Append(returned, [name |-> sourceName,
                                    connectionString |-> connectionString,
                                    cleared |-> cleared,
                                    pool |-> MapGet(pools', sourceName),
                                    ended |-> created'[MapGet(pools', sourceName)].ended])
  /\ UNCHANGED <<cleared, closing, engineVars, binderVars, registryVars, loaderVars>>

\* Array.from(this.pools.values())
PoolValues == {pools[k][2] : k \in 1..Len(pools)}

\* closeAll() up to its await: end() is called on every pool of the Map and
\* Promise.all of the promises is awaited
CloseAllCall(caller) ==
  /\ closing.state = "idle"
  /\ cleared < MaxCloseAll
  /\ closing' = [closing EXCEPT
                   !.state = "awaiting", !.snapshot = PoolValues, !.error = <<>>,
                   !.caller = caller,
                   !.cleanup = IF caller = "cleanup"
                               THEN [state |-> "pending", error |-> <<>>]
                               ELSE @]
  /\ created' = [p \in 1..Len(created) |->
                   IF p \in PoolValues
                   THEN [created[p] EXCEPT
                           !.ended = IF @ = "no" THEN "called" ELSE @,
                           !.endCall = "pending"]
                   ELSE created[p]]
  /\ UNCHANGED <<pools, returned, cleared, engineVars, binderVars, registryVars, loaderVars>>

\* the promise of a pool's end() settles; the first rejection among the
\* promises given to Promise.all is the one Promise.all rejects with
PoolEndSettle(p, ok) ==
  /\ p \in 1..Len(created)
  /\ created[p].endCall = "pending"
  /\ created' = [created EXCEPT
                   ![p].endCall = IF ok THEN "fulfilled" ELSE "rejected",
                   ![p].ended = IF ok THEN "done" ELSE @]
  /\ closing' = IF /\ ~ok
                   /\ closing.state = "awaiting"
                   /\ p \in closing.snapshot
                   /\ closing.error = <<>>
                THEN [closing EXCEPT !.error = EndError(p)]
                ELSE closing
  /\ UNCHANGED <<pools, returned, cleared, engineVars, binderVars,
                 registryVars, loaderVars>>

\* a cleanup that swallows the rejection of closeAll
CleanupSwallow(c, settled) ==
  IF c.caller = "cleanup" THEN [state |-> "resolved", error |-> <<>>] ELSE c.cleanup

\* cleanup: async () => { await connectionManager.closeAll() }: the promise
\* of the cleanup function settles as the closeAll it awaits
Cleanup(c, settled) ==
  IF c.caller = "cleanup"
  THEN [state |-> settled, error |-> IF settled = "rejected" THEN c.error ELSE <<>>]
  ELSE c.cleanup

\* a closeAll that clears the Map without awaiting the end() calls
CloseAllSettleEarly ==
  /\ closing.state = "awaiting"
  /\ closing' = [closing EXCEPT !.state = "idle", !.last = "resolved",
                                !.cleanup = Cleanup(closing, "resolved")]
  /\ pools' = <<>>
  /\ cleared' = cleared + 1
  /\ UNCHANGED <<created, returned, engineVars, binderVars, registryVars, loaderVars>>

\* Promise.all settles.  Fulfilled (every end() fulfilled): the Map is
\* cleared and closeAll resolves.  Rejected (an end() rejected): closeAll
\* rejects and the Map is left as it is.
CloseAllSettle ==
  /\ closing.state = "awaiting"
  /\ IF \E p \in closing.snapshot : created[p].endCall = "rejected"
     THEN /\ closing' = [closing EXCEPT !.state = "idle", !.last = "rejected",
                                        !.cleanup = Cleanup(closing, "rejected")]
          /\ UNCHANGED <<pools, cleared>>
     ELSE /\ \A p \in closing.snapshot : created[p].endCall = "fulfilled"
          /\ closing' = [closing EXCEPT !.state = "idle", !.last = "resolved",
                                        !.cleanup = Cleanup(closing, "resolved")]
          /\ pools' = <<>>
          /\ cleared' = cleared + 1
  /\ UNCHANGED <<created, returned, engineVars, binderVars, registryVars, loaderVars>>

PoolNext ==
  \/ \E sourceName \in SourceNames, connectionString \in ConnectionStrings :
       GetPool(sourceName, connectionString)
  \/ \E caller \in {"closeAll", "cleanup"} : CloseAllCall(caller)
  \/ \E p \in 1..MaxGetPool, ok \in BOOLEAN : PoolEndSettle(p, ok)
  \/ CloseAllSettle

PoolSpec == PoolInit /\ [][PoolNext]_vars

(***************************************************************************)
(* The tool handler addToolsToMcpServer registers, with executeQuery as    *)
(* its callee: validateArgs, then executeQuery with the parsed arguments.  *)
(***************************************************************************)
\* the names of the declared parameters, by position: p1, p2, ...
DeclaredNames == [k \in 1..MaxParams |-> <<"p">> \o Digits(k)]

ParameterTypes == {"string", "number", "boolean"}

\* required: true, false or not specified
RequiredValues == {Bool(TRUE), Bool(FALSE), JsUndefined}

\* default: not specified, or a string, a number or a boolean
DefaultValues == {JsUndefined, Str(<<"5">>), Num(5), Bool(FALSE)}

\* the parameter lists of a tool
ToolParameters ==
  UNION { { [k \in 1..n |->
               Parameter(DeclaredNames[k], o[k][1], o[k][2], o[k][3])] :
            o \in [1..n -> ParameterTypes \X RequiredValues \X DefaultValues] } :
          n \in 0..MaxParams }

\* the strings an argument can be
ArgStrings ==
  { <<"1", "0">>, <<"a", "b", "c">>, <<>>, <<" ">>, <<"0">>, <<"1">>, <<"-", "5">>,
    <<"t", "r", "u", "e">>, <<"T", "R", "U", "E">>, <<" ", "F", "a", "l", "s", "e", " ">>, <<"f", "a", "l", "s", "e">>, <<"n", "o">>, <<"O", "f", "f">>, <<"o", "f", "f">>, <<"y", "e", "s">>, <<"O", "N">>, <<"o", "n">>, <<"m", "a", "y", "b", "e">> }

\* what an argument can be: a JSON value that is not an object or an array
ArgValues ==
  {Str(str) : str \in ArgStrings} \cup {Num(0), Num(5), Bool(TRUE), Bool(FALSE), Null}

RECURSIVE Present(_, _)
\* the args object with the values that are not undefined, name by name
Present(names, v) ==
  IF names = <<>> THEN <<>>
  ELSE LET rest == Present(SubSeq(names, 1, Len(names) - 1), v)
       IN  IF v[Len(names)] = JsUndefined THEN rest
           ELSE Append(rest, [name |-> names[Len(names)], value |-> v[Len(names)]])

\* the args a client can send: a value or nothing for each name
HandlerArgs ==
  { Present(DeclaredNames, v) :
      v \in [1..MaxParams -> ArgValues \cup {JsUndefined}] }

\* server.tool registered the handler of a tool whose shape was built
HandlerInit ==
  /\ toolParameters \in {p \in ToolParameters : ~GetZodShape(p).threw}
  /\ handlerArgs = <<>>
  /\ handlerPc = "idle"
  /\ validation = NotValidated
  /\ executeQueryCalls = <<>>
  /\ handlerResult = NoResult
  /\ ConfigQuiet
  /\ EngineQuiet
  /\ BinderQuiet
  /\ RegistryQuiet
  /\ PoolQuiet

\* a handler that gives executeQuery the args it was called with
HandlerRawArgs(args) ==
  /\ handlerPc = "idle"
  /\ handlerArgs' = args
  /\ validation' = ValidateArgs(toolParameters, args)
  /\ IF ~validation'.success
     THEN /\ handlerResult' = [isError |-> TRUE, text |-> validation'.error]
          /\ handlerPc' = "returned"
          /\ UNCHANGED executeQueryCalls
     ELSE /\ executeQueryCalls' = Append(executeQueryCalls, args)
          /\ handlerPc' = "executing"
          /\ UNCHANGED handlerResult
  /\ UNCHANGED <<toolParameters, configVars, engineVars, binderVars,
                 registryVars, poolVars>>

\* the handler is called: validateArgs(args ?? {}), then the error result or
\* the call of executeQuery with validation.parsedArgs
Handler(args) ==
  /\ handlerPc = "idle"
  /\ handlerArgs' = args
  /\ validation' = ValidateArgs(toolParameters, args)
  /\ IF ~validation'.success
     THEN /\ handlerResult' = [isError |-> TRUE, text |-> validation'.error]
          /\ handlerPc' = "returned"
          /\ UNCHANGED executeQueryCalls
     ELSE /\ executeQueryCalls' =
               Append(executeQueryCalls, validation'.parsedArgs)
          /\ handlerPc' = "executing"
          /\ UNCHANGED handlerResult
  /\ UNCHANGED <<toolParameters, configVars, engineVars, binderVars,
                 registryVars, poolVars>>

\* executeQuery resolves with its success result or its error result: the
\* handler returns it
ExecuteQueryResolve(ok) ==
  /\ handlerPc = "executing"
  /\ handlerPc' = "returned"
  /\ handlerResult' =
       LET result == IF ok THEN SuccessResult(Rows)
                     ELSE ErrorResult(ToolName(1), StmtErr("QUERY"))
       IN  [isError |-> result.isError, text |-> result.text]
  /\ UNCHANGED <<toolParameters, handlerArgs, validation, executeQueryCalls,
                 configVars, engineVars, binderVars, registryVars, poolVars>>

\* executeQuery rejects: the handler's catch returns the error's message
ExecuteQueryReject ==
  /\ handlerPc = "executing"
  /\ handlerPc' = "returned"
  /\ handlerResult' = [isError |-> TRUE, text |-> Rejection(ErrRelease).text]
  /\ UNCHANGED <<toolParameters, handlerArgs, validation, executeQueryCalls,
                 configVars, engineVars, binderVars, registryVars, poolVars>>

HandlerNext ==
  \/ \E args \in HandlerArgs : Handler(args)
  \/ \E ok \in BOOLEAN : ExecuteQueryResolve(ok)
  \/ ExecuteQueryReject

HandlerSpec == HandlerInit /\ [][HandlerNext]_vars

(***************************************************************************)
(* validateConfig and addToolsToMcpServer on a configuration.              *)
(***************************************************************************)
\* the keys of config.sources
ConfigSources == { <<"d", "b", "1">> }

\* what the source of a tool can name
SourceReferences == { <<"d", "b", "1">>, <<"d", "b", "2">>, <<"t", "o", "S", "t", "r", "i", "n", "g">> }

\* the names of the tools, by position in Object.entries(config.tools)
ConfigToolNames == [k \in 1..MaxTools |-> <<"t">> \o Digits(k)]

\* the configurations: declared sources, and tools with a source reference
\* and parameters
Configs ==
  [sources : SUBSET ConfigSources,
   tools : UNION { { [k \in 1..n |->
                        [name |-> ConfigToolNames[k], source |-> t[k][1],
                         parameters |-> t[k][2]]] :
                     t \in [1..n -> SourceReferences \X ToolParameters] } :
                   n \in 0..MaxTools }]

ConfigInit ==
  /\ config \in Configs
  /\ validated = NotRun
  /\ added = NotRun
  /\ serverTools = <<>>
  /\ HandlerQuiet
  /\ EngineQuiet
  /\ BinderQuiet
  /\ RegistryQuiet
  /\ PoolQuiet

\* config.sources[source] is truthy: a source of the configuration, or a
\* property the object inherits
SourceFound(sources, source) ==
  source \in sources \/ source \in ObjectPrototype

\* the positions of the tools whose source is not found
SourceMissing(cfg) ==
  {k \in 1..Len(cfg.tools) : ~SourceFound(cfg.sources, cfg.tools[k].source)}

\* the Error of both source checks
SourceNotFound(source, toolName) ==
  <<"Source '", source, "' not found for tool '", toolName, "'">>

\* the Error of validateConfig for the issues of the schema
InvalidConfiguration == <<"Invalid YAML configuration: ", "issues">>

\* every parameter of every tool passes ParameterSchema
ParametersValid(cfg) ==
  \A k \in 1..Len(cfg.tools) :
    \A j \in 1..Len(cfg.tools[k].parameters) :
      ParameterSchema(cfg.tools[k].parameters[j])

\* the first tool whose source is not found
FirstMissing(cfg) ==
  CHOOSE k \in SourceMissing(cfg) : \A j \in SourceMissing(cfg) : k <= j

\* validateConfig(config): YamlConfigSchema.parse throws the Error of the
\* source check, or a ZodError that is made into an Error; with issues in the
\* parameters, the schema library decides whether the source check is run
ValidateConfig(refined) ==
  /\ validated = NotRun
  /\ validated' =
       IF SourceMissing(config) # {} /\ (ParametersValid(config) \/ refined)
       THEN [state |-> "threw",
             message |-> SourceNotFound(config.tools[FirstMissing(config)].source,
                                        config.tools[FirstMissing(config)].name)]
       ELSE IF ~ParametersValid(config)
       THEN [state |-> "threw", message |-> InvalidConfiguration]
       ELSE [state |-> "returned", message |-> <<>>]
  /\ UNCHANGED <<config, added, serverTools, handlerVars, engineVars,
                 binderVars, registryVars, poolVars>>

\* the tools of the loop of addToolsToMcpServer that make it throw: the source
\* is not found, or getZodShape throws
Throwing(cfg) ==
  SourceMissing(cfg)
    \cup {k \in 1..Len(cfg.tools) : GetZodShape(cfg.tools[k].parameters).threw}

\* the ZodError of getZodShape
ShapeError == <<"ZodError", "default">>

\* addToolsToMcpServer(server, config): for each tool the source lookup, the
\* shape and server.tool, until one throws
AddToolsToMcpServer ==
  /\ added = NotRun
  /\ IF Throwing(config) = {}
     THEN /\ added' = [state |-> "returned", message |-> <<>>]
          /\ serverTools' = [k \in 1..Len(config.tools) |-> config.tools[k].name]
     ELSE LET first == CHOOSE k \in Throwing(config) :
                         \A j \in Throwing(config) : k <= j
          IN  /\ added' =
                   [state |-> "threw",
                    message |->
                      IF first \in SourceMissing(config)
                      THEN SourceNotFound(config.tools[first].source,
                                          config.tools[first].name)
                      ELSE ShapeError]
              /\ serverTools' =
                   [k \in 1..(first - 1) |-> config.tools[k].name]
  /\ UNCHANGED <<config, validated, handlerVars, engineVars, binderVars,
                 registryVars, poolVars>>

ConfigNext ==
  \/ \E refined \in BOOLEAN : ValidateConfig(refined)
  \/ AddToolsToMcpServer

ConfigSpec == ConfigInit /\ [][ConfigNext]_vars

(***************************************************************************)
(* Reading the log of an invocation.                                       *)
(***************************************************************************)
Positions(i) == 1..Len(log[i])

IsIssue(e, kinds) == e.ev = "issue" /\ e.kind \in kinds
IsCall(e, what) == e.ev = "call" /\ e.kind = what
IsFail(e, kinds) == e.ev = "fail" /\ e.kind \in kinds
IsOk(e, kinds) == e.ev = "ok" /\ e.kind \in kinds

HasIssued(i, kinds) == \E k \in Positions(i) : IsIssue(log[i][k], kinds)
HasCalled(i, what) == \E k \in Positions(i) : IsCall(log[i][k], what)
HasFailed(i, kinds) == \E k \in Positions(i) : IsFail(log[i][k], kinds)
HasSucceeded(i, kinds) == \E k \in Positions(i) : IsOk(log[i][k], kinds)

\* the statements the invocation issued, in order
Issues(i) == SelectSeq(log[i], LAMBDA e : e.ev = "issue")

AllKinds == TxnKinds \cup {"POOLQUERY"}

Done(i) == pc[i] = "done"

\* the invocation is between the issue of BEGIN and the completion of its
\* COMMIT or ROLLBACK
InTransaction(i) == pc[i] \in TxnKinds

\* a character an argument value can bring into a text, and no statement has
HostileChars == {"'", ";", "-"}

(***************************************************************************)
(* C1: the text of every statement sent to the database, on the pool and   *)
(* on a dedicated connection, is the same for every choice of the argument *)
(* values (the names kept), consists of characters of the template and of  *)
(* placeholder syntax only, and the values travel in the values list.      *)
(***************************************************************************)
C1_TextIndependentOfValues ==
  LET statement == Statements[call[1]]
      bindings == {BuildSafeQuery(statement, alt) :
                     alt \in SameNames(ArgObjects[call[2]])}
      argValues == {a.value : a \in Range(ArgObjects[call[2]])}
      syntax == Range(statement) \cup {"$"} \cup Range(DigitChars)
  IN  \A i \in Invocations : \A k \in Positions(i) :
        LET e == log[i][k]
        IN  /\ IsIssue(e, {"QUERY", "POOLQUERY"}) =>
                 /\ \A b \in bindings : b.ok /\ b.text = e.text
                 /\ Range(e.text) \subseteq syntax
                 /\ Range(e.text) \cap HostileChars = {}
                 /\ Range(e.values) \subseteq argValues
            /\ IsIssue(e, {"BEGIN", "COMMIT", "ROLLBACK"}) => e.text = <<e.kind>>
            /\ IsIssue(e, {"SET"}) => e.text = SetConfigText

\* a named statement with a hostile argument was sent on the pool by one
\* invocation and on a dedicated connection by another
C1_Witness ==
  /\ call = <<1, 1>>
  /\ \E i, j \in Invocations :
       /\ \E k \in Positions(i) :
            /\ IsIssue(log[i][k], {"POOLQUERY"})
            /\ Hostile \in Range(log[i][k].values)
       /\ \E k \in Positions(j) :
            /\ IsIssue(log[j][k], {"QUERY"})
            /\ Hostile \in Range(log[j][k].values)

(***************************************************************************)
(* C2: an invocation whose pool.connect resolved releases the connection   *)
(* exactly once, as the last thing it does and after every statement it    *)
(* issued has completed; an invocation whose pool.connect rejected, or     *)
(* that never called it, never calls release.                              *)
(***************************************************************************)
ReleaseCount(i) ==
  Cardinality({k \in Positions(i) : IsCall(log[i][k], "release")})

C2_ReleasedExactlyOnce ==
  \A i \in Invocations :
    /\ released[i] = ReleaseCount(i)
    /\ released[i] <= 1
    /\ Done(i) => (released[i] = 1 <=> HasCalled(i, "connected"))
    /\ HasCalled(i, "connected") /\ released[i] = 0 => ~Done(i)
    /\ released[i] = 1 =>
         /\ \A k \in Positions(i) :
              /\ IsCall(log[i][k], "release") =>
                   /\ log[i][k].conn = client[i]
                   /\ \A m \in Positions(i) :
                        m > k => IsFail(log[i][m], {"release"})
              /\ IsIssue(log[i][k], AllKinds) =>
                   /\ k < Len(log[i])
                   /\ log[i][k + 1].ev \in {"ok", "fail"}
                   /\ log[i][k + 1].kind = log[i][k].kind
                   /\ ~IsCall(log[i][k + 1], "release")
         /\ HasIssued(i, {"BEGIN"}) =>
              \/ HasSucceeded(i, {"COMMIT"})
              \/ HasSucceeded(i, {"ROLLBACK"})
              \/ HasFailed(i, {"ROLLBACK"})

\* a connection was released after a failed statement and a failed ROLLBACK,
\* and another invocation ended on a rejected pool.connect
C2_Witness ==
  \E i, j \in Invocations :
    /\ Done(i) /\ released[i] = 1 /\ HasFailed(i, {"ROLLBACK"})
    /\ Done(j) /\ HasCalled(j, "connect") /\ ~HasCalled(j, "connected")
    /\ released[j] = 0

(***************************************************************************)
(* C3: when the main query of a transaction fails, ROLLBACK is issued next *)
(* on the same connection, COMMIT is never issued, the connection is       *)
(* released exactly once and the caller receives the error result with the *)
(* message of the main query's error.                                      *)
(***************************************************************************)
C3_QueryFailureRollsBack ==
  \A i \in Invocations :
    HasFailed(i, {"QUERY"}) =>
      /\ \A k \in Positions(i) :
           IsFail(log[i][k], {"QUERY"}) =>
             /\ k < Len(log[i])
             /\ IsIssue(log[i][k + 1], {"ROLLBACK"})
             /\ log[i][k + 1].conn = log[i][k].conn
      /\ ~HasIssued(i, {"COMMIT"})
      /\ Done(i) =>
           /\ released[i] = 1
           /\ outcome[i] = ErrorResult(ToolName(i), StmtErr("QUERY"))

(***************************************************************************)
(* C4: when the settings statement fails, ROLLBACK is issued next on the   *)
(* same connection, the main query is never issued, on the connection or   *)
(* through the pool, and the connection is released exactly once.          *)
(***************************************************************************)
C4_SettingsFailureSkipsQuery ==
  \A i \in Invocations :
    HasFailed(i, {"SET"}) =>
      /\ \A k \in Positions(i) :
           IsFail(log[i][k], {"SET"}) =>
             /\ k < Len(log[i])
             /\ IsIssue(log[i][k + 1], {"ROLLBACK"})
             /\ log[i][k + 1].conn = log[i][k].conn
      /\ ~HasIssued(i, {"QUERY", "POOLQUERY", "COMMIT"})
      /\ released[i] = ReleaseCount(i)
      /\ Done(i) <=> released[i] = 1

\* an invocation ended after its settings statement failed
C4_Witness ==
  \E i \in Invocations :
    /\ Done(i) /\ HasFailed(i, {"SET"}) /\ HasSucceeded(i, {"ROLLBACK"})
    /\ released[i] = 1

\* the first statement of the invocation that failed
FirstFailure(i) ==
  LET k == CHOOSE k \in Positions(i) :
             /\ IsFail(log[i][k], TxnKinds)
             /\ \A m \in 1..(k - 1) : ~IsFail(log[i][m], TxnKinds)
  IN  log[i][k].kind

(***************************************************************************)
(* C5: when a statement of the transaction fails and the ROLLBACK that     *)
(* follows fails too, the error result carries the message of the first    *)
(* error, and the connection is released.                                  *)
(***************************************************************************)
C5_RollbackFailureKeepsOriginal ==
  \A i \in Invocations :
    Done(i) /\ HasFailed(i, {"ROLLBACK"}) =>
      /\ released[i] = 1
      /\ outcome[i].state = "resolved" =>
           outcome[i] = ErrorResult(ToolName(i), StmtErr(FirstFailure(i)))

(***************************************************************************)
(* C6: the promise of executeQuery never rejects; its result is the error  *)
(* result of the tool exactly when some step failed.                       *)
(***************************************************************************)
C6_NeverRejects ==
  \A i \in Invocations :
    Done(i) =>
      /\ outcome[i].state = "resolved"
      /\ outcome[i].isError <=> \E k \in Positions(i) : log[i][k].ev = "fail"
      /\ outcome[i].isError =>
           /\ Len(outcome[i].text) = 4
           /\ outcome[i].text[1] = "Error executing tool '"
           /\ outcome[i].text[2] = ToolName(i)
           /\ outcome[i].text[3] = "': "

(***************************************************************************)
(* C7: at most one BEGIN .. COMMIT/ROLLBACK sequence is in progress on a   *)
(* connection at any time.                                                 *)
(***************************************************************************)
C7_NoInterleaving ==
  \A i, j \in Invocations :
    i # j /\ InTransaction(i) /\ InTransaction(j) => client[i] # client[j]

\* the settings are absent or an empty map
NoneOrEmpty(settings) == ~settings.defined \/ settings.entries = <<>>

\* executeHook resolved with settings that are not empty
TransactionalPath(i) ==
  HasSucceeded(i, {"executeHook"}) /\ ~NoneOrEmpty(pgSettings[i])

(***************************************************************************)
(* C8: with settings that are not empty, the invocation calls pool.connect *)
(* once and issues on that connection, each statement after the one before *)
(* has completed: BEGIN, one set_config statement with every pair of the   *)
(* settings, the bound query, COMMIT; it never calls pool.query.           *)
(***************************************************************************)
C8_TransactionOrder ==
  \A i \in Invocations :
    TransactionalPath(i) =>
      LET issues == Issues(i)
          bound == Bound(call)
      IN  /\ ~HasIssued(i, {"POOLQUERY"})
          /\ Cardinality({k \in Positions(i) : IsCall(log[i][k], "connect")}) = 1
          /\ \A k \in Positions(i) :
               IsIssue(log[i][k], TxnKinds) =>
                 /\ client[i] # NoClient
                 /\ log[i][k].conn = client[i]
                 /\ k < Len(log[i]) =>
                      /\ log[i][k + 1].ev \in {"ok", "fail"}
                      /\ log[i][k + 1].kind = log[i][k].kind
          /\ ~HasFailed(i, TxnKinds) =>
               /\ Len(issues) <= 4
               /\ \A n \in 1..Len(issues) :
                    issues[n].kind = <<"BEGIN", "SET", "QUERY", "COMMIT">>[n]
          /\ \A n \in 1..Len(issues) :
               /\ issues[n].kind = "SET" =>
                    /\ issues[n].text = SetConfigText
                    /\ Len(issues[n].values) = 1
                    /\ Range(pgSettings[i].entries) \subseteq
                         Range(issues[n].values[1])
               /\ issues[n].kind = "QUERY" =>
                    /\ issues[n].text = bound.text
                    /\ issues[n].values = bound.values
          /\ Done(i) /\ ~outcome[i].isError =>
               /\ Len(issues) = 4
               /\ HasSucceeded(i, {"COMMIT"})

\* a transaction with two settings committed
C8_Witness ==
  \E i \in Invocations :
    /\ Done(i) /\ TransactionalPath(i) /\ HasSucceeded(i, {"COMMIT"})
    /\ Len(pgSettings[i].entries) >= 2
    /\ outcome[i] = SuccessResult(Rows)

\* no plugins, or executeHook resolved with no settings or an empty map
DirectPath(i) ==
  \/ /\ plugins = "none"
     /\ pc[i] # "idle"
     /\ ~HasFailed(i, {"connectionString", "getPool", "buildSafeQuery"})
  \/ /\ HasSucceeded(i, {"executeHook"})
     /\ NoneOrEmpty(pgSettings[i])

(***************************************************************************)
(* C9: without plugins, or with settings absent or empty, the invocation   *)
(* issues exactly one pool.query(text, values) and neither calls           *)
(* pool.connect nor issues BEGIN, COMMIT or ROLLBACK.                      *)
(***************************************************************************)
C9_DirectPath ==
  \A i \in Invocations :
    DirectPath(i) =>
      /\ Issues(i) =
           <<Issued("POOLQUERY", NoClient, Bound(call).text, Bound(call).values)>>
      /\ ~HasCalled(i, "connect")
      /\ client[i] = NoClient
      /\ released[i] = 0

\* pool.query ended for an invocation whose hook resolved with an empty map
\* and for one whose hook resolved without pgSettings
C9_Witness ==
  \E i, j \in Invocations :
    /\ Done(i) /\ HasSucceeded(i, {"executeHook"}) /\ pgSettings[i] = Settings(<<>>)
    /\ HasSucceeded(i, {"POOLQUERY"})
    /\ Done(j) /\ HasSucceeded(j, {"executeHook"}) /\ pgSettings[j] = NoSettings
    /\ HasSucceeded(j, {"POOLQUERY"})

(***************************************************************************)
(* C10: when the hook fails, the invocation issues no statement and calls  *)
(* neither pool.query nor pool.connect, and its result is the error result *)
(* with the message of the hook's error.                                   *)
(***************************************************************************)
C10_HookFailureRunsNothing ==
  \A i \in Invocations :
    HasFailed(i, {"executeHook"}) =>
      /\ Done(i)
      /\ Issues(i) = <<>>
      /\ ~HasCalled(i, "connect")
      /\ client[i] = NoClient
      /\ outcome[i] = ErrorResult(ToolName(i), ErrHook)

\* the second callback of a registry failed after the first had resolved
C10_Witness ==
  \E i \in Invocations :
    /\ Done(i) /\ HasFailed(i, {"executeHook"})
    /\ \E k \in Positions(i) : log[i][k] = CallbackCalled(2)

(***************************************************************************)
(* Reading a statement: the placeholders it contains.                      *)
(***************************************************************************)
\* a colon followed by a word character
HasNamed(s) == \E i \in 1..(Len(s) - 1) : s[i] = ":" /\ s[i + 1] \in WordChars

\* a dollar sign followed by a digit
HasPositional(s) ==
  \E i \in 1..(Len(s) - 1) : s[i] = "$" /\ s[i + 1] \in Range(DigitChars)

RECURSIVE DistinctNames(_, _, _)
\* the distinct names of the named placeholders of s from index i, in the
\* order of their first occurrence
DistinctNames(s, i, seen) ==
  IF i > Len(s) THEN seen
  ELSE IF s[i] = ":" /\ i < Len(s) /\ s[i + 1] \in WordChars
       THEN LET e == WordEnd(s, i + 1)
                name == SubSeq(s, i + 1, e - 1)
            IN  DistinctNames(s, e, IF name \in Range(seen) THEN seen
                                    ELSE Append(seen, name))
       ELSE DistinctNames(s, i + 1, seen)

RECURSIVE Renumbered(_, _, _)
\* s from index i with every named placeholder rewritten, in one pass, to
\* "$" and the index of its name in names
Renumbered(s, i, names) ==
  IF i > Len(s) THEN <<>>
  ELSE IF s[i] = ":" /\ i < Len(s) /\ s[i + 1] \in WordChars
       THEN LET e == WordEnd(s, i + 1)
                name == SubSeq(s, i + 1, e - 1)
                k == CHOOSE k \in 1..Len(names) : names[k] = name
            IN  <<"$">> \o Digits(k) \o Renumbered(s, e, names)
       ELSE <<s[i]>> \o Renumbered(s, i + 1, names)

\* the argument supplied under a name
ArgOf(parameters, name) ==
  parameters[CHOOSE k \in 1..Len(parameters) : parameters[k].name = name].value

(***************************************************************************)
(* C15: for a statement with named placeholders only, all of them          *)
(* supplied, buildSafeQuery gives the k-th distinct name (by first         *)
(* occurrence) the index k: every occurrence of the name reads $k, and the *)
(* values list is the arguments of the distinct names in that order, one   *)
(* entry per name.                                                         *)
(***************************************************************************)
C15_NamedBinding ==
  LET names == DistinctNames(toolStatement, 1, <<>>)
  IN  ( /\ binding.called
        /\ HasNamed(toolStatement)
        /\ ~HasPositional(toolStatement)
        /\ \A n \in Range(names) : HasOwn(parsedArgs, n) )
      => /\ binding.ok
         /\ binding.text = Renumbered(toolStatement, 1, names)
         /\ Len(binding.values) = Len(names)
         /\ \A k \in 1..Len(names) :
              binding.values[k] = ArgOf(parsedArgs, names[k])

\* :a:b:a was bound with b inserted before a: a has index 1, b index 2
C15_Witness ==
  /\ binding.called
  /\ toolStatement = <<":", "a", ":", "b", ":", "a">>
  /\ parsedArgs = << [name |-> <<"b">>, value |-> <<"7">>],
                     [name |-> <<"a">>, value |-> Hostile] >>
  /\ binding.text = <<"$", "1", "$", "2", "$", "1">>
  /\ binding.values = <<Hostile, <<"7">>>>

(***************************************************************************)
(* C16: for a statement with a positional placeholder and no named one,    *)
(* the bound text is the statement and the values list is the argument     *)
(* values in the order the arguments were declared.                        *)
(***************************************************************************)
C16_PositionalPassThrough ==
  ( /\ binding.called
    /\ HasPositional(toolStatement)
    /\ ~HasNamed(toolStatement) )
  => /\ binding.ok
     /\ binding.text = toolStatement
     /\ binding.values = [k \in 1..Len(parsedArgs) |-> parsedArgs[k].value]

(***************************************************************************)
(* C17: when the statement has a named placeholder whose name is not a key *)
(* of the argument object, binding fails with the message                  *)
(* "Parameter :<name> not provided".                                       *)
(***************************************************************************)
C17_MissingParameterFails ==
  LET names == DistinctNames(toolStatement, 1, <<>>)
      missing == {k \in 1..Len(names) : ~HasOwn(parsedArgs, names[k])}
  IN  (binding.called /\ missing # {})
      => /\ ~binding.ok
         /\ \E k \in missing :
              binding.error = <<"Parameter :">> \o names[k] \o <<" not provided">>

(***************************************************************************)
(* C18: for a statement with neither a named nor a positional placeholder  *)
(* the bound text is the statement and the values list is empty, whatever  *)
(* the arguments.                                                          *)
(***************************************************************************)
C18_ParameterlessPassThrough ==
  ( /\ binding.called
    /\ ~HasNamed(toolStatement)
    /\ ~HasPositional(toolStatement) )
  => /\ binding.ok
     /\ binding.text = toolStatement
     /\ binding.values = <<>>

(***************************************************************************)
(* Reading the trace of an executeHook call.                               *)
(***************************************************************************)
TracePositions(e) == 1..Len(hookTrace[e])

\* the callbacks the call has invoked, in the order of their invocation
CalledCallbacks(e) ==
  LET calls == SelectSeq(hookTrace[e], LAMBDA ev : ev.ev = "call")
  IN  [k \in 1..Len(calls) |-> calls[k].callback]

\* what the callbacks of the call resolved to, in order
ResolvedResults(e) ==
  LET rs == SelectSeq(hookTrace[e], LAMBDA ev : ev.ev = "resolve")
  IN  [k \in 1..Len(rs) |-> rs[k].result]

KeysOf(m) == {m[k][1] : k \in 1..Len(m)}

(***************************************************************************)
(* C11: when a callback of executeHook('beforeQuery') rejects, it is the   *)
(* last callback the call invokes, executeHook rejects with the error of   *)
(* that callback, and no settings are returned.                            *)
(***************************************************************************)
C11_AbortOnFirstFailure ==
  \A e \in Executions : \A k \in TracePositions(e) :
    hookTrace[e][k].ev = "reject"
    => /\ k = Len(hookTrace[e])
       /\ hook[e].state = "rejected"
       /\ hook[e].error = CallbackError(hookTrace[e][k].callback)
       /\ hook[e].merged = <<>>

\* the first of two registered callbacks rejected and the second was not
\* called
C11_Witness ==
  \E e \in Executions :
    /\ Len(callbacksByHook) = 2
    /\ hook[e].state = "rejected"
    /\ CalledCallbacks(e) = <<callbacksByHook[1].callback>>
    /\ hook[e].error = CallbackError(callbacksByHook[1].callback)

(***************************************************************************)
(* C12: the array of callbacks is in the order of the register and         *)
(* registerHook calls, and executeHook invokes the callbacks of the array  *)
(* from its first entry on, one at a time: a callback is invoked right     *)
(* after the one before it has resolved, and not before.                   *)
(***************************************************************************)
C12_SequentialInRegistrationOrder ==
  /\ \A j, k \in 1..Len(callbacksByHook) :
       j < k => callbacksByHook[j].callback < callbacksByHook[k].callback
  /\ \A e \in Executions :
       LET called == CalledCallbacks(e)
       IN  /\ Len(called) <= Len(callbacksByHook)
           /\ \A k \in 1..Len(called) : called[k] = callbacksByHook[k].callback
           /\ \A p \in TracePositions(e) :
                hookTrace[e][p].ev = "call" /\ p > 1
                => /\ hookTrace[e][p - 1].ev = "resolve"
                   /\ \E k \in 2..Len(called) :
                        /\ hookTrace[e][p].callback = called[k]
                        /\ hookTrace[e][p - 1].callback = called[k - 1]

\* a callback brought by register and then one brought by registerHook were
\* invoked in that order, the second after the first had resolved
C12_Witness ==
  \E e \in Executions :
    /\ Len(callbacksByHook) = 2
    /\ callbacksByHook[1].pluginName = "p1"
    /\ MapHas(registeredPlugins, "p1")
    /\ callbacksByHook[2].pluginName = "anonymous"
    /\ Len(hookTrace[e]) = 3
    /\ hookTrace[e][2].ev = "resolve"
    /\ CalledCallbacks(e) = <<callbacksByHook[1].callback,
                              callbacksByHook[2].callback>>

(***************************************************************************)
(* C13: the settings executeHook has merged (and returns when the last     *)
(* callback has resolved) have as keys the union of the keys of the        *)
(* callbacks' results and, for each key, the value of the last result that *)
(* has the key; a result without pgSettings changes nothing, and with no   *)
(* callbacks the map is empty.                                             *)
(***************************************************************************)
C13_MergeLastWins ==
  \A e \in Executions :
    hook[e].state \in {"awaiting", "resolved"}
    => LET rs == ResolvedResults(e)
           merged == hook[e].merged
           with(key) == {k \in 1..Len(rs) :
                           rs[k].defined /\ key \in KeysOf(rs[k].entries)}
       IN  /\ KeysOf(merged) =
                UNION {KeysOf(rs[k].entries) : k \in {j \in 1..Len(rs) : rs[j].defined}}
           /\ Cardinality(KeysOf(merged)) = Len(merged)
           /\ \A key \in KeysOf(merged) :
                LET last == CHOOSE k \in with(key) : \A j \in with(key) : j <= k
                IN  MapGet(merged, key) = MapGet(rs[last].entries, key)

\* two callbacks returned different values of role, the second also a key
\* of its own: the returned map has the second role and the other key
C13_Witness ==
  \E e \in Executions :
    /\ hook[e].state = "resolved"
    /\ ResolvedResults(e) =
         << Settings(<< <<"role", "authenticated">> >>),
            Settings(<< <<"role", "admin">>, <<"user.id", "u1">> >>) >>
    /\ hook[e].merged = << <<"role", "admin">>, <<"user.id", "u1">> >>

(***************************************************************************)
(* C14: the settings the set_config statement carries are the merged       *)
(* settings, key by key and value by value, with role = the value of       *)
(* jwt.claims.role added exactly when the merged settings have             *)
(* jwt.claims.role and no role.                                            *)
(***************************************************************************)
\* the settings carried by the set_config statements invocation i issued
AppliedSettings(i) ==
  {log[i][k].values[1] : k \in {p \in Positions(i) : IsIssue(log[i][p], {"SET"})}}

\* the merged settings lack role and have jwt.claims.role
RoleSynthesized(merged) ==
  "jwt.claims.role" \in KeysOf(merged) /\ "role" \notin KeysOf(merged)

C14_RoleSynthesis ==
  \A i \in Invocations : \A applied \in AppliedSettings(i) :
    LET merged == pgSettings[i].entries
    IN  /\ KeysOf(applied) =
             KeysOf(merged) \cup
               (IF RoleSynthesized(merged) THEN {"role"} ELSE {})
        /\ Cardinality(KeysOf(applied)) = Len(applied)
        /\ \A key \in KeysOf(merged) : MapGet(applied, key) = MapGet(merged, key)
        /\ RoleSynthesized(merged)
             => MapGet(applied, "role") = MapGet(merged, "jwt.claims.role")

\* one invocation applied a synthesized role, another an explicit role next
\* to jwt.claims.role
C14_Witness ==
  \E i, j \in Invocations :
    /\ RoleSynthesized(pgSettings[i].entries)
    /\ \E applied \in AppliedSettings(i) : MapGet(applied, "role") = "admin"
    /\ {"role", "jwt.claims.role"} \subseteq KeysOf(pgSettings[j].entries)
    /\ MapGet(pgSettings[j].entries, "jwt.claims.role") = "admin"
    /\ \E applied \in AppliedSettings(j) :
         MapGet(applied, "role") = "authenticated"

(***************************************************************************)
(* Reading the history of a ConnectionManager.                             *)
(***************************************************************************)
GetPoolCalls == 1..Len(returned)

\* the getPool calls made while the Map had been cleared c times
CallsOfEra(c) == {a \in GetPoolCalls : returned[a].cleared = c}

\* the pools constructed while the Map had been cleared c times
PoolsOfEra(c) == {p \in 1..Len(created) : created[p].cleared = c}

(***************************************************************************)
(* C19: among the getPool calls with no clearing of the Map by closeAll in *)
(* between, two calls return the same pool exactly when they name the same *)
(* source, whatever connection strings they pass, and the number of pools  *)
(* constructed is the number of distinct source names asked for.           *)
(***************************************************************************)
C19_PoolPerSourceName ==
  \A c \in 0..cleared :
    /\ \A a, b \in CallsOfEra(c) :
         (returned[a].name = returned[b].name)
           <=> (returned[a].pool = returned[b].pool)
    /\ Cardinality(PoolsOfEra(c)) =
         Cardinality({returned[a].name : a \in CallsOfEra(c)})

\* two calls for one source with different connection strings got the same
\* pool, a call for another source got another pool
C19_Witness ==
  \E a, b, d \in GetPoolCalls :
    /\ cleared = 0
    /\ returned[a].name = returned[b].name
    /\ returned[a].connectionString # returned[b].connectionString
    /\ returned[a].pool = returned[b].pool
    /\ returned[d].name # returned[a].name
    /\ returned[d].pool # returned[a].pool
    /\ Len(created) = 2

(***************************************************************************)
(* C20: whatever the order of the getPool calls of concurrent invocations, *)
(* the Map never holds two pools under one source name, at most one pool   *)
(* is constructed for a name (until closeAll clears the Map), and no step  *)
(* replaces the pool of a name by another pool.                            *)
(***************************************************************************)
C20_NoDuplicatePool ==
  /\ [](/\ Cardinality(KeysOf(pools)) = Len(pools)
        /\ \A c \in 0..cleared : \A p, q \in PoolsOfEra(c) :
             created[p].name = created[q].name => p = q)
  /\ [][\A k \in 1..Len(pools) :
          MapHas(pools', pools[k][1]) => MapGet(pools', pools[k][1]) = pools[k][2]]_vars

\* three calls for the same source found one pool constructed
C20_Witness ==
  /\ Len(returned) = 3
  /\ \A a \in GetPoolCalls : returned[a].name = "db1" /\ returned[a].pool = 1
  /\ Len(created) = 1
  /\ pools = << <<"db1", 1>> >>

(***************************************************************************)
(* C21: when closeAll resolves, every pool that was in the Map when it was *)
(* called has had end() called and completed, and the Map is empty; a      *)
(* getPool call made after that returns a pool constructed after it; and   *)
(* closeAll on an empty Map resolves.                                      *)
(***************************************************************************)
\* the step in which the closeAll call in flight settles
CloseAllSettles == closing.state = "awaiting" /\ closing'.state = "idle"

C21_CloseAllEndsEveryPool ==
  /\ [][CloseAllSettles /\ closing'.last = "resolved"
          => /\ \A p \in closing.snapshot : created[p].ended = "done"
             /\ pools' = <<>>]_vars
  /\ [][CloseAllSettles /\ closing.snapshot = {}
          => closing'.last = "resolved"]_vars
  /\ [](\A a \in GetPoolCalls :
          created[returned[a].pool].cleared = returned[a].cleared)

\* closeAll resolved with two pools in the Map, both ended, and a getPool
\* call made after it got a third pool
C21_Witness ==
  /\ closing.last = "resolved"
  /\ cleared = 1
  /\ Cardinality(closing.snapshot) = 2
  /\ \A p \in closing.snapshot : created[p].ended = "done"
  /\ \E a \in GetPoolCalls :
       /\ returned[a].cleared = 1
       /\ returned[a].pool = 3
       /\ created[3].ended = "no"

(***************************************************************************)
(* C30: every pool that a clearing of the Map by closeAll has removed has  *)
(* had end() called on it, also when getPool calls run while closeAll      *)
(* awaits the end() calls.                                                 *)
(***************************************************************************)
C30_NoPoolDroppedUnclosed ==
  \A p \in 1..Len(created) :
    created[p].cleared < cleared => created[p].ended # "no"

(***************************************************************************)
(* C26: after any register calls the registry has one plugin per name      *)
(* registered, the one the last register call of that name brought:        *)
(* getPlugin returns it, and getRegisteredPlugins has one entry for it.    *)
(***************************************************************************)
\* the register calls made with a name
RegisterCalls(name) ==
  {k \in 1..Len(registrations) :
     registrations[k].method = "register" /\ registrations[k].name = name}

C26_OnePluginPerName ==
  /\ \A name \in PluginNames :
       LET calls == RegisterCalls(name)
           listed == {k \in 1..Len(GetRegisteredPlugins) :
                        GetRegisteredPlugins[k].name = name}
       IN  IF calls = {}
           THEN GetPlugin(name) = Undefined /\ listed = {}
           ELSE LET last == CHOOSE k \in calls : \A j \in calls : j <= k
                IN  /\ GetPlugin(name).plugin = last
                    /\ Cardinality(listed) = 1
                    /\ \A k \in listed : GetRegisteredPlugins[k].plugin = last
  /\ Len(GetRegisteredPlugins) =
       Cardinality({name \in PluginNames : RegisterCalls(name) # {}})

\* p1 was registered twice: the registry holds the second plugin only
C26_Witness ==
  /\ RegisterCalls("p1") = {1, 2}
  /\ GetPlugin("p1").plugin = 2
  /\ Len(GetRegisteredPlugins) = 1

(***************************************************************************)
(* C29: an invocation that got its connection and waited in the queue is   *)
(* not affected by the operation it waited for: it issues its own BEGIN,   *)
(* and an error result it returns is the error of one of its own           *)
(* statements.                                                             *)
(***************************************************************************)
C29_WaiterUnaffected ==
  \A i \in Invocations :
    Done(i) /\ HasCalled(i, "connected") =>
      /\ HasIssued(i, {"BEGIN"})
      /\ outcome[i].state = "resolved" /\ outcome[i].isError =>
           HasFailed(i, TxnKinds)

(***************************************************************************)
(* Reading a call of the tool handler.                                     *)
(***************************************************************************)
HandlerCalled == handlerPc # "idle"

\* the declared parameters
Declared == {toolParameters[k] : k \in 1..Len(toolParameters)}

\* the parameters validateArgs reported an issue for
FailedPaths == IF validation.success THEN {} ELSE Range(validation.error[2])

\* the parameter has no argument
Absent(param) == ~HasOwn(handlerArgs, param.name)

\* the argument of the parameter, when it has one
Argument(param) == ParamValue(handlerArgs, param.name)

\* validateArgs succeeded and gives the parameter this value
ParsedAs(param, value) ==
  /\ HasOwn(validation.parsedArgs, param.name)
  /\ ParamValue(validation.parsedArgs, param.name) = value

(***************************************************************************)
(* C22: when validateArgs fails the handler has returned isError = true    *)
(* with the validation message and executeQuery was not called; when it    *)
(* succeeds executeQuery is called once, with the parsed arguments, each   *)
(* of the declared type of its parameter.                                  *)
(***************************************************************************)
C22_ValidateBeforeExecute ==
  HandlerCalled =>
    IF validation.success
    THEN /\ executeQueryCalls = <<validation.parsedArgs>>
         /\ \A k \in 1..Len(executeQueryCalls[1]) :
              \E param \in Declared :
                /\ param.name = executeQueryCalls[1][k].name
                /\ param.type = TypeOf(executeQueryCalls[1][k].value)
    ELSE /\ executeQueryCalls = <<>>
         /\ handlerPc = "returned"
         /\ handlerResult = [isError |-> TRUE, text |-> validation.error]

\* the handler was called with the string "10" for a number parameter and
\* executeQuery got the number 10
C22_Witness ==
  /\ handlerPc = "executing"
  /\ Len(toolParameters) = 1
  /\ toolParameters[1].type = "number"
  /\ handlerArgs = <<[name |-> toolParameters[1].name, value |-> Str(<<"1", "0">>)]>>
  /\ executeQueryCalls =
       << <<[name |-> toolParameters[1].name, value |-> Num(10)]>> >>

Numerals ==
  { <<<<"1", "0">>, 10>>, <<<<"0">>, 0>>, <<<<"1">>, 1>>, <<<<"-", "5">>, 0 - 5>> }

C24_NumericStringsOnly ==
  HandlerCalled =>
    \A param \in Declared :
      param.type = "number" /\ ~Absent(param) /\ Argument(param).type = "string" =>
        IF \E n \in Numerals : n[1] = Argument(param).str
        THEN /\ param.name \notin FailedPaths
             /\ validation.success =>
                  \E n \in Numerals :
                    n[1] = Argument(param).str /\ ParsedAs(param, Num(n[2]))
        ELSE /\ ~validation.success
             /\ param.name \in FailedPaths

(***************************************************************************)
(* C25: for a boolean parameter, a boolean argument is kept, a number n    *)
(* gives n # 0, and a string gives false when, trimmed and lower-cased, it *)
(* is false, 0, no, off or empty, and true otherwise; validateArgs reports *)
(* no issue for the parameter.                                             *)
(***************************************************************************)
\* the strings of the arguments that read as false
ReadAsFalse ==
  { <<"f", "a", "l", "s", "e">>, <<" ", "F", "a", "l", "s", "e", " ">>, <<"0">>, <<>>, <<" ">>, <<"n", "o">>, <<"o", "f", "f">>, <<"O", "f", "f">> }

\* the boolean the claim gives a value
ExpectedBoolean(v) ==
  CASE v.type = "boolean" -> v.bool
    [] v.type = "number" -> v.num # 0
    [] OTHER -> v.str \notin ReadAsFalse

C25_BooleanCoercion ==
  HandlerCalled =>
    \A param \in Declared :
      /\ param.type = "boolean"
      /\ ~Absent(param)
      /\ Argument(param).type \in {"boolean", "number", "string"}
      => /\ param.name \notin FailedPaths
         /\ validation.success =>
              ParsedAs(param, Bool(ExpectedBoolean(Argument(param))))

\* the string " False " was given for a boolean parameter and reads as false
C25_Witness ==
  /\ HandlerCalled
  /\ Len(toolParameters) = 1
  /\ toolParameters[1].type = "boolean"
  /\ handlerArgs = <<[name |-> toolParameters[1].name, value |-> Str(<<" ", "F", "a", "l", "s", "e", " ">>)]>>
  /\ validation.success
  /\ ParsedAs(toolParameters[1], Bool(FALSE))

(***************************************************************************)
(* Reading a configuration.                                                *)
(***************************************************************************)
\* the parameters of every tool of the configuration
ConfigParameters ==
  UNION { {config.tools[k].parameters[j] :
             j \in 1..Len(config.tools[k].parameters)} :
          k \in 1..Len(config.tools) }

\* every tool names a source of the configuration
SourcesDeclared ==
  \A k \in 1..Len(config.tools) : config.tools[k].source \in config.sources

(***************************************************************************)
(* C27: validateConfig throws for a configuration with a parameter that    *)
(* has required = false and no default, or a default whose type is not the *)
(* declared type; it returns the configuration when every parameter has no *)
(* default and required true or not specified (the sources being           *)
(* declared).                                                              *)
(***************************************************************************)
C27_ParameterDefaults ==
  validated.state # "none" =>
    /\ (\E param \in ConfigParameters :
          \/ param.required = Bool(FALSE) /\ param.default = JsUndefined
          \/ param.default # JsUndefined /\ param.default.type # param.type)
       => validated.state = "threw"
    /\ (/\ SourcesDeclared
        /\ \A param \in ConfigParameters :
             param.required # Bool(FALSE) /\ param.default = JsUndefined)
       => validated.state = "returned"

\* a number parameter with the default "5" and a declared source: rejected
C27_Witness ==
  /\ validated.state = "threw"
  /\ SourcesDeclared
  /\ Len(config.tools) = 1
  /\ Len(config.tools[1].parameters) = 1
  /\ config.tools[1].parameters[1].type = "number"
  /\ config.tools[1].parameters[1].default = Str(<<"5">>)

(***************************************************************************)
(* C28: for a tool whose source is not a key of sources, validateConfig    *)
(* does not return the configuration, and addToolsToMcpServer throws       *)
(* "Source '<s>' not found for tool '<t>'" and registers no handler for    *)
(* the tool.                                                               *)
(***************************************************************************)
C28_SourcesResolve ==
  \A k \in 1..Len(config.tools) :
    config.tools[k].source \notin config.sources =>
      /\ validated.state # "returned"
      /\ added.state # "none" =>
           /\ added.state = "threw"
           /\ k = 1 => added.message =
                         SourceNotFound(config.tools[k].source, config.tools[k].name)
           /\ config.tools[k].name \notin Range(serverTools)

(***************************************************************************)
(* C31: on the transactional path the caller receives the rows only if     *)
(* COMMIT succeeded; when COMMIT fails after the main query succeeded the  *)
(* caller receives the error result of the tool.                           *)
(***************************************************************************)
C31_SuccessOnlyAfterCommit ==
  \A i \in Invocations :
    Done(i) /\ HasIssued(i, {"BEGIN"}) =>
      /\ ~outcome[i].isError => HasSucceeded(i, {"COMMIT"})
      /\ HasSucceeded(i, {"QUERY"}) /\ HasFailed(i, {"COMMIT"}) =>
           /\ outcome[i].state = "resolved"
           /\ outcome[i].isError

(***************************************************************************)
(* C32: an invocation issues ROLLBACK at most once, and it has issued it   *)
(* exactly when one of BEGIN, the settings statement, the main query or    *)
(* COMMIT has failed; ROLLBACK is never issued after a COMMIT that         *)
(* succeeded and COMMIT is never issued after a ROLLBACK.                  *)
(***************************************************************************)
RollbackPositions(i) == {k \in Positions(i) : IsIssue(log[i][k], {"ROLLBACK"})}

C32_RollbackExactlyOnFailure ==
  \A i \in Invocations :
    /\ Cardinality(RollbackPositions(i)) <= 1
    /\ RollbackPositions(i) # {}
         <=> HasFailed(i, {"BEGIN", "SET", "QUERY", "COMMIT"})
    /\ \A k \in RollbackPositions(i) :
         /\ k > 1
         /\ IsFail(log[i][k - 1], {"BEGIN", "SET", "QUERY", "COMMIT"})
         /\ \A m \in Positions(i) : IsIssue(log[i][m], {"COMMIT"}) => m < k
    /\ HasSucceeded(i, {"COMMIT"}) => RollbackPositions(i) = {}

\* one invocation ended after COMMIT failed and the ROLLBACK failed too,
\* another after every statement succeeded
C32_Witness ==
  \E i, j \in Invocations :
    /\ Done(i) /\ Done(j)
    /\ HasSucceeded(i, {"QUERY"})
    /\ HasFailed(i, {"COMMIT"})
    /\ HasFailed(i, {"ROLLBACK"})
    /\ Cardinality(RollbackPositions(i)) = 1
    /\ HasSucceeded(j, {"COMMIT"})

(***************************************************************************)
(* C33: within one invocation the pool is looked up, then the statement is *)
(* bound, then executeHook and every callback run in turn, each with the   *)
(* bound positional text in its context, and pool.connect is called or a   *)
(* statement issued only after the hook has resolved, that is after the    *)
(* last callback has; the statement issued has the text the hook saw.      *)
(***************************************************************************)
Before(i, k, what) == \E m \in 1..(k - 1) : IsCall(log[i][m], what)

C33_StepsInSequence ==
  LET bound == Bound(call)
  IN  \A i \in Invocations : \A k \in Positions(i) :
    LET e == log[i][k]
    IN  /\ IsCall(e, "buildSafeQuery") =>
             /\ Before(i, k, "getPool")
             /\ ~HasFailed(i, {"connectionString", "getPool"})
        /\ IsCall(e, "executeHook") =>
             /\ Before(i, k, "buildSafeQuery")
             /\ ~HasFailed(i, {"buildSafeQuery"})
             /\ bound.ok
             /\ e.text = bound.text
             /\ ~Includes(e.text, ":")
        /\ IsCall(e, "callback") =>
             /\ e.text = bound.text
             /\ IF e.conn = 1
                THEN IsCall(log[i][k - 1], "executeHook")
                ELSE /\ IsCall(log[i][k - 1], "callback")
                     /\ log[i][k - 1].conn = e.conn - 1
        /\ IsCall(e, "connect") \/ e.ev = "issue" =>
             /\ Before(i, k, "buildSafeQuery")
             /\ plugins # "none" =>
                  \E m \in 1..(k - 1) : IsOk(log[i][m], {"executeHook"})
             /\ plugins = "registry" =>
                  /\ \A m \in Positions(i) : IsCall(log[i][m], "callback") => m < k
                  /\ Cardinality({m \in Positions(i) : IsCall(log[i][m], "callback")})
                       = Len(callbacks)
             /\ IsIssue(e, {"QUERY", "POOLQUERY"}) => e.text = bound.text

\* a statement with named placeholders went through two callbacks and was
\* then issued on a dedicated connection
C33_Witness ==
  \E i \in Invocations :
    /\ call[1] = 1
    /\ Len(callbacks) = 2
    /\ HasIssued(i, {"QUERY"})
    /\ \E k \in Positions(i) :
         /\ IsCall(log[i][k], "callback")
         /\ log[i][k].conn = 2
         /\ log[i][k].text = Bound(call).text

(***************************************************************************)
(* C34: when end() of a pool rejects, closeAll rejects with that error and *)
(* the Map is left as it is; a getPool made afterwards for a name closeAll *)
(* had ended returns the same pool, on which end() has been called; the    *)
(* next closeAll calls end() on every pool of the Map, those pools         *)
(* included; and the promise of the cleanup function settles as the        *)
(* closeAll it awaits, with the same error.                                *)
(***************************************************************************)
CloseAllCalled == closing.state = "idle" /\ closing'.state = "awaiting"

GetPoolReturns == Len(returned') = Len(returned) + 1

C34_FailedCloseAllKeepsPools ==
  /\ [][CloseAllSettles
          /\ (\E p \in closing.snapshot : created[p].endCall = "rejected")
          => /\ closing'.last = "rejected"
             /\ \E p \in closing.snapshot :
                  /\ created[p].endCall = "rejected"
                  /\ closing'.error = EndError(p)
             /\ pools' = pools
             /\ cleared' = cleared]_vars
  /\ [](closing.last = "rejected" => closing.snapshot \subseteq PoolValues)
  /\ [][GetPoolReturns /\ closing.state = "idle" /\ closing.last = "rejected"
          => LET r == returned'[Len(returned')]
             IN  MapHas(pools, r.name) /\ MapGet(pools, r.name) \in closing.snapshot
                   => /\ r.pool = MapGet(pools, r.name)
                      /\ r.ended # "no"
                      /\ created' = created
                      /\ pools' = pools]_vars
  /\ [][CloseAllCalled
          => /\ closing'.snapshot = PoolValues
             /\ \A p \in PoolValues : created'[p].endCall = "pending"]_vars
  /\ [][CloseAllSettles /\ closing.caller = "cleanup"
          => /\ closing'.cleanup.state = closing'.last
             /\ closing'.last = "rejected"
                  => closing'.cleanup.error = closing'.error]_vars

\* a cleanup rejected because end() of the second pool did; getPool then
\* returned the first pool, ended, and a second closeAll has called end()
\* on it again
C34_Witness ==
  /\ cleared = 0
  /\ closing.state = "awaiting"
  /\ closing.last = "rejected"
  /\ closing.cleanup = [state |-> "rejected", error |-> EndError(2)]
  /\ closing.snapshot = {1, 2}
  /\ created[1].ended = "done"
  /\ created[1].endCall = "pending"
  /\ Len(returned) = 3
  /\ returned[3].pool = 1
  /\ returned[3].ended = "done"

(***************************************************************************)
(* C35: no call removes a callback from the array of the hook; an          *)
(* executeHook('beforeQuery') that resolves has invoked, in the order of   *)
(* their registration, the callbacks of all registrations that supplied    *)
(* one, those of plugins since replaced under their name included, so     *)
(* their number is the number of such registrations.                       *)
(***************************************************************************)
\* the registration calls that supplied a beforeQuery callback
WithCallback == {k \in 1..Len(registrations) : registrations[k].withCallback}

HookResolves(e) == hook[e].state = "awaiting" /\ hook'[e].state = "resolved"

C35_CallbacksNeverRemoved ==
  /\ [][/\ Len(callbacksByHook') >= Len(callbacksByHook)
        /\ \A k \in 1..Len(callbacksByHook) :
             callbacksByHook'[k] = callbacksByHook[k]]_vars
  /\ []( /\ {callbacksByHook[k].callback : k \in 1..Len(callbacksByHook)}
              = WithCallback
         /\ Len(callbacksByHook) = Cardinality(WithCallback)
         /\ \A j, k \in 1..Len(callbacksByHook) :
              j < k => callbacksByHook[j].callback < callbacksByHook[k].callback
         /\ \A e \in Executions :
              LET called == CalledCallbacks(e)
              IN  /\ Len(called) <= Len(callbacksByHook)
                  /\ \A k \in 1..Len(called) :
                       called[k] = callbacksByHook[k].callback )
  /\ [][\A e \in Executions :
          HookResolves(e) =>
            Len(CalledCallbacks(e))' = Cardinality(WithCallback)]_vars

\* register(p1) twice, each with a callback: the call invoked both
\* callbacks in order although the registry lists the second plugin only
C35_Witness ==
  \E e \in Executions :
    /\ Len(registrations) = 2
    /\ \A k \in 1..2 :
         /\ registrations[k].method = "register"
         /\ registrations[k].name = "p1"
         /\ registrations[k].withCallback
    /\ hook[e].state = "resolved"
    /\ CalledCallbacks(e) = <<1, 2>>
    /\ Len(GetRegisteredPlugins) = 1
    /\ GetPlugin("p1").plugin = 2

(***************************************************************************)
(* C36: the finally block of executeQuery has reset the slot of the        *)
(* connection when it releases it, after a success and after an error: a   *)
(* connection no invocation holds any more has an empty slot, and an       *)
(* invocation that gets a connection all other holders have returned from  *)
(* does not wait for it.                                                   *)
(***************************************************************************)
\* the invocations other than i that got connection c
OtherHolders(i, c) == {j \in Invocations \ {i} : client[j] = c}

C36_SlotResetBeforeRelease ==
  /\ [][\A i \in Invocations :
          released'[i] = released[i] + 1 =>
            /\ pc'[i] = "done"
            /\ queue'[client[i]] = NoOp]_vars
  /\ [](\A c \in Clients :
          (\A i \in Invocations : client[i] = c => Done(i)) => queue[c] = NoOp)
  /\ [][\A i \in Invocations :
          /\ pc[i] = "connecting"
          /\ pc'[i] \in {"waiting", "ensured"}
          /\ \A j \in OtherHolders(i, client'[i]) : Done(j)
          => pc'[i] = "ensured"]_vars

\* one invocation returned an error result after its main query failed and
\* released the connection; the other one got the same connection, whose
\* slot is empty, and is about to issue BEGIN without having waited
C36_Witness ==
  \E i, j \in Invocations :
    /\ Done(i)
    /\ HasFailed(i, {"QUERY"})
    /\ released[i] = 1
    /\ client[j] = client[i]
    /\ i # j
    /\ pc[j] = "ensured"
    /\ queue[client[i]] = NoOp

(***************************************************************************)
(* C37: no Map a callback returned is written to, the merged map of an     *)
(* executeHook call starts empty, and the settings an invocation applies   *)
(* have only keys its own hook returned to it, and role when it is         *)
(* synthesized from the jwt.claims.role returned to it.                    *)
(***************************************************************************)
C37_SettingsScopedToInvocation ==
  /\ [](\A r \in PluginMaps : settingsMaps.content[r] = r.entries)
  /\ [](\A i \in Invocations :
          /\ pgSettings[i].defined =>
               MapKeys(pgSettings[i].entries) \subseteq settingsMaps.contributed[i]
          /\ \A applied \in AppliedSettings(i) :
               MapKeys(applied) \subseteq
                 settingsMaps.contributed[i] \cup
                   (IF "jwt.claims.role" \in settingsMaps.contributed[i]
                    THEN {"role"} ELSE {}))
  /\ [][\A i \in Invocations :
          pc[i] = "idle" /\ pc'[i] = "hook" /\ plugins = "registry"
            => pgSettings'[i] = Settings(<<>>)]_vars

\* both invocations were given the same Map by executeHook; the first has
\* applied it with the synthesized role, the second applies it without the
\* first one's role being in the Map
C37_Witness ==
  \E i, j \in Invocations :
    /\ i # j
    /\ plugins = "other"
    /\ settingsMaps.held[i] = settingsMaps.held[j]
    /\ settingsMaps.held[i].defined
    /\ RoleSynthesized(pgSettings[i].entries)
    /\ Done(i)
    /\ AppliedSettings(i) # {}
    /\ AppliedSettings(j) # {}
    /\ "role" \notin MapKeys(pgSettings[j].entries)

(***************************************************************************)
(* C38: when one name of the statement is a proper prefix of another and   *)
(* both are supplied, the replacement of the shorter name leaves every     *)
(* occurrence of the longer one in place, each name gets the index of its  *)
(* own first occurrence and its own value, and the bound text is the       *)
(* one-pass rewrite of the statement: no inserted $k is rewritten.         *)
(***************************************************************************)
ProperPrefix(short, long) ==
  Len(short) < Len(long) /\ SubSeq(long, 1, Len(short)) = short

\* the indices of s at which :name occurs as a whole placeholder
Occurrences(s, name) ==
  {i \in 1..Len(s) :
     /\ s[i] = ":"
     /\ i < Len(s)
     /\ s[i + 1] \in WordChars
     /\ SubSeq(s, i + 1, WordEnd(s, i + 1) - 1) = name}

C38_PrefixNamesKeptApart ==
  LET names == DistinctNames(toolStatement, 1, <<>>)
      pairs == {p \in (1..Len(names)) \X (1..Len(names)) :
                  ProperPrefix(names[p[1]], names[p[2]])}
  IN  ( /\ binding.called
        /\ pairs # {}
        /\ \A n \in Range(names) : HasOwn(parsedArgs, n) )
      => /\ binding.ok
         /\ binding.text = Renumbered(toolStatement, 1, names)
         /\ Len(binding.values) = Len(names)
         /\ \A p \in pairs :
              LET short == names[p[1]]
                  long == names[p[2]]
                  replaced == ReplaceAll(toolStatement, short, <<"$">> \o Digits(p[1]))
              IN  /\ Cardinality(Occurrences(replaced, long))
                       = Cardinality(Occurrences(toolStatement, long))
                  /\ Occurrences(replaced, short) = {}
                  /\ binding.values[p[1]] = ArgOf(parsedArgs, short)
                  /\ binding.values[p[2]] = ArgOf(parsedArgs, long)

\* :a:ab with both names supplied: a is $1 and ab is $2
C38_Witness ==
  /\ binding.called
  /\ toolStatement = <<":", "a", ":", "a", "b">>
  /\ parsedArgs = << [name |-> <<"a", "b">>, value |-> <<"7">>],
                     [name |-> <<"a">>, value |-> Hostile] >>
  /\ binding.text = <<"$", "1", "$", "2">>
  /\ binding.values = <<Hostile, <<"7">>>>

(***************************************************************************)
(* C39: when every awaited promise settles, every invocation that was      *)
(* started returns: the promise of executeQuery settles, whether the       *)
(* invocation waited for the slot of its connection or not.                *)
(***************************************************************************)
C39_EveryInvocationReturns ==
  \A i \in Invocations : (pc[i] # "idle") ~> Done(i)

\* both invocations returned on one connection, one of them after its wait
\* for the slot ended with the rejection of the other one's operation
C39_Witness ==
  \E i, j \in Invocations :
    /\ i # j
    /\ Done(i) /\ Done(j)
    /\ client[i] = client[j]
    /\ client[i] # NoClient
    /\ HasFailed(j, {"queue"})
    /\ HasIssued(i, {"ROLLBACK"})

=============================================================================
